---- MODULE Spec2Model ----
(***************************************************************************)
(* Turn orchestration of ComfyUI-Specter: ChatService.chat (retry wrapper), *)
(* ChatService._chat_impl (one attempt under the per-service lock), the     *)
(* response listener ChatService._handle_response, and the browser          *)
(* launch/close helpers of specter/core/browser.py.                         *)
(*                                                                          *)
(* Every coroutine is modelled at the granularity of its awaits: the value  *)
(* task[c].pc names the await a call is suspended on, and one action is the *)
(* completion of that await (normally or by raising) followed by all the    *)
(* synchronous code up to the next await.                                   *)
(***************************************************************************)
EXTENDS Integers, Sequences, FiniteSets, TLC

\* ---------------------------------------------------------------- bounds
\* environment events in one behaviour: network responses delivered to a page
\* listener, primitives that raise (timeouts, launch errors), task cancellations
MaxEvents == 2
\* response handlers suspended on a body read at the same time
MaxInFlight == 1

\* ------------------------------------------------------ program constants
max_retries == 3
RETRY_AFTER_NO_RESPONSE == 10
wait_max_retries == 2
INACTIVITY_TIMEOUT_TEXT == 40
INACTIVITY_TIMEOUT_IMAGE == 50
IMAGE_EXTENSION == 10

Services == {"grok", "svc2"}
Calls == {"a", "b", "c"}

\* the calls a behaviour makes and the environment events it may see:
\*   "grok"   one chat() call on grok, up to MaxEvents environment events
\*   "svc2"   one chat() call on svc2, at most one environment event
\*   "pair"   two chat() calls on the grok singleton, at most one environment event
\*   "cross"  one chat() call on each service, no environment event
\*   "throttled"  one chat() call on grok against a rate-limiting server: the only
\*            environment events are API responses, all of status 429, at most
\*            one per attempt the wrapper can make
Workloads == {"grok", "svc2", "pair", "cross", "throttled"}
ActiveCalls ==
  [grok |-> {"a"}, svc2 |-> {"c"}, pair |-> {"a", "b"}, cross |-> {"a", "c"},
   throttled |-> {"a"}]
EventBudget ==
  [grok |-> MaxEvents, svc2 |-> 1, pair |-> 1, cross |-> 0, throttled |-> max_retries]

\* the singleton ChatService each call goes through
ServiceOf(c) == IF c = "c" THEN "svc2" ELSE "grok"

\* ServiceConfig of each service: GrokService.config, and for svc2 the dataclass
\* defaults of a service that configures an image_ready_selector.  init_scripts and
\* image_ready_selector record whether the field is non-empty.
config ==
  [s \in Services |->
     IF s = "grok"
     THEN [image_min_size |-> 80000, response_timeout |-> 40,
           image_ready_selector |-> FALSE, init_scripts |-> TRUE]
     ELSE [image_min_size |-> 50000, response_timeout |-> 90,
           image_ready_selector |-> TRUE, init_scripts |-> FALSE]]

\* settings.json "debug_dumps" (default True)
is_debug_dumps_enabled == TRUE

Null == 0
NoCall == "-"

\* payload sizes in bytes; a payload is identified by its size
Sizes == {50000, 80000, 80001}

\* instants (seconds since wait_start) at which the wait loop may wake up
Instants == {0, 30, 43, 53, 90}

VARIABLES
  task,           \* per call: coroutine position, locals of chat/_chat_impl/_wait_for_response
  self,           \* per service: fields of the singleton ChatService
  service_locks,  \* per service: holder of the asyncio.Lock in _service_locks
  sessions,       \* per service: every browser launched so far (driver + context)
  handlers,       \* _handle_response invocations suspended on response.text()/body()
  hist,           \* per service: history of the current attempt (not program state)
  used,           \* environment events so far
  workload,       \* the workload of this behaviour
  login,          \* the session file of a service and a run of handle_login_flow
  routes,         \* per matched request: its route and the intercept handler run for it
  lock_table,     \* _service_locks and what get_service_lock returned to its callers
  profile,        \* the profile directory of a service and the users that launch on it
  progress,       \* the ProgressTracker of one attempt and its progress sink
  gate            \* the Grok request gate of one page and the requests it is run for

\* the state of ChatService.chat and its environment
program == <<task, self, service_locks, sessions, handlers, hist, used, workload>>
\* the state of the components that are examined on their own
aside == <<login, routes, lock_table, profile, progress, gate>>

vars == <<program, aside>>

\* ------------------------------------------------------------ values
NoPend == [t |-> "none", text |-> "", media |-> Null, kind |-> "", status |-> 0]
Ret(text, media) == [t |-> "ret", text |-> text, media |-> media, kind |-> "", status |-> 0]
Exc(kind, status) == [t |-> "exc", text |-> "", media |-> Null, kind |-> kind, status |-> status]
CancelledError == Exc("CancelledError", 0)

NoError == [status |-> 0, body |-> ""]
NoCompletion == [complete |-> FALSE, text |-> ""]


\* Not program state: why (how the wait loop of the attempt was left: "hard",
\* "inactivity" or "", kept until the attempt ends), images_at_wake (captures seen
\* by the latest wake-up), last_response_at (elapsed at the latest counted response),
\* logins (how often the attempt has asked for a login).
InitTask ==
  [pc |-> "idle", attempt |-> 0, site |-> "", pend |-> NoPend, result |-> NoPend,
   last_result |-> Ret("", Null), expect_image |-> FALSE,
   elapsed |-> 0, last_image_count |-> 0, retry_count |-> 0, response_text |-> "",
   why |-> "", images_at_wake |-> 0, last_response_at |-> -1, logins |-> 0,
   acquired |-> 0, released |-> 0, cancels |-> 0, swallowed |-> 0, outcomes |-> <<>>]

InitSelf ==
  [context |-> Null, captured_images |-> <<>>, response_count |-> 0, listening |-> FALSE,
   api_completion |-> NoCompletion, api_error |-> NoError, upload_complete |-> FALSE,
   expect_image |-> FALSE]

\* pre_tracked: a response observed while listening was false changed turn state
\* first_status: status of the first matched API response counted in this attempt,
\*               known once its handler has read it
\* quota_in_wait: the hard-quota text was on the page at a wake-up of the wait loop
\* marker_seen, final_seen: a handler of this attempt has read a 2xx API response
\*   carrying the terminal marker / a record with a final-text field
InitHist ==
  [pre_tracked |-> FALSE, first_status |-> 0, quota_in_wait |-> FALSE,
   marker_seen |-> FALSE, final_seen |-> FALSE]

\* login.file: Null when <service>_session.json does not exist, Truncated while
\*   save_session has opened it for writing, n for the record of the n-th save
\* login.saves: completed save_session calls
\* login.pc: position of handle_login_flow ("idle" before the call, "sleep" in the
\*   poll loop, "returned", "raised"); elapsed and new_session are its locals
\* login.at_request: login.saves when the login event was sent (not program state)
Truncated == -1
InitLogin ==
  [file |-> Null, saves |-> 0, pc |-> "idle", elapsed |-> 0, new_session |-> Null,
   at_request |-> 0]

\* ---- requests matched by page.route(pattern, intercept)
MaxRequests == 2
Requests == 1..MaxRequests
\* route.request.post_data of a matched request:
\*   "absent"     None or empty
\*   "unparsable" json.loads raises
\*   "not_object" JSON that is not an object: modify_request_body raises
\*   "settled"    an object modify_request_body returns False for
\*   "to_modify"  an object modify_request_body changes, returning True
PostData == {"absent", "unparsable", "not_object", "settled", "to_modify"}
\* routes[r].pc: position of intercept(route) ("none" before the request is made,
\*   "continue_mutated" / "continue_original" suspended in route.continue_,
\*   "returned", "raised")
\* routes[r].alive: the request still exists (its page is open, it was not aborted)
\* routes[r].sent: the bodies the request has been continued with
InitRoute == [pc |-> "none", post_data |-> "absent", alive |-> TRUE, sent |-> <<>>]
InitRoutes == [r \in Requests |-> InitRoute]

\* ---- _service_locks
MaxLockCallers == 3
LockCallers == 1..MaxLockCallers
ServiceIds == Services \cup {"chatgpt"}
\* lock_table.locks: _service_locks (Null: no entry; n: the n-th asyncio.Lock created)
\* lock_table.created: the service ids asyncio.Lock() was called for, in order
\* lock_table.got: per caller, the latest service id asked for and the lock returned
InitLockTable ==
  [locks |-> [s \in ServiceIds |-> Null], created |-> <<>>,
   got |-> [k \in LockCallers |-> [service |-> "", lock |-> Null]]]

\* ---- the browser profile of one service and the code paths that launch on it
\* BrowserSession instances used with `async with` (grok/imagine.py)
SessionUsers == {"s1", "s2"}
\* callers of launch_browser that do not take the service lock:
\* imagine_t2v (grok_video.py) and BrowserStream.start (login_stream.py)
FreeLaunchers == {"video", "stream"}
ProfileUsers == SessionUsers \cup FreeLaunchers
\* profile.lock: who acquired the service lock (NoCall: not locked)
\* profile.user[u].pc: position of the user's coroutine
\*   playwright: BrowserSession.playwright is set
\*   live: a browser launched by u is open on the profile directory
\*   in_with: u is inside the body of its `async with` statement
\*   start: how u's latest call of start() ended ("" while none has ended)
\*   recoveries: recovery relaunches of u's current call of start()
\*   pend: the exception with which u ended; cancels: cancellations thrown into u
InitUser ==
  [pc |-> "idle", playwright |-> FALSE, live |-> FALSE, in_with |-> FALSE,
   start |-> "", recoveries |-> 0, pend |-> "", cancels |-> 0]
InitProfile == [lock |-> NoCall, user |-> [u \in ProfileUsers |-> InitUser]]

\* ---- ProgressTracker
\* progress.made: the tracker of the attempt has been constructed
\* progress.pbar, preview, current, preview_image: its fields (preview_image as
\*   "an image is stored")
\* progress.last, forwards: the latest value passed to pbar.update_absolute (-1
\*   before the first one) and the number of such calls
InitProgress ==
  [made |-> FALSE, pbar |-> FALSE, preview |-> FALSE, current |-> 0, preview_image |-> FALSE,
   last |-> -1, forwards |-> 0]

\* ---- the Grok request gate (_setup_request_gate)
MaxGateRequests == 3
GateRequests == 1..MaxGateRequests
\* what a request to **/rest/app-chat/conversations/new carries:
\*   "GET"            its method is not POST
\*   "absent"         POST without post_data: json.loads(None) raises
\*   "unparsable"     POST whose post_data is not JSON
\*   "not_object"     POST whose JSON is not an object: body.get raises
\*   "null_overrides" POST whose object has "toolOverrides": null: .get raises
\*   "plain"          POST with an object that is no video request
\*   "video"          POST with an object whose toolOverrides.videoGen is set
GateBodies == {"GET", "absent", "unparsable", "not_object", "null_overrides", "plain", "video"}
\* gate.installed, allow_video: page.route was called; the gate's parameter
\* gate.ready, allowed: state["ready"], state["allowed"]
\* gate.req[r].pc: position of on_route(route) ("none" before the request is
\*   made, "abort" / "continue" / "continue_mutated" suspended in that call of the
\*   route, "returned")
\* gate.req[r].before (not program state): the request arrived before unblock()
\* gate.req[r].fate: "" | "aborted" | "continued" (original body) | "mutated"
InitGateRequest == [pc |-> "none", body |-> "GET", before |-> FALSE, fate |-> ""]
InitGate ==
  [installed |-> FALSE, allow_video |-> FALSE, ready |-> FALSE, allowed |-> FALSE,
   req |-> [r \in GateRequests |-> InitGateRequest]]

Init ==
  /\ task = [c \in Calls |-> InitTask]
  /\ self = [s \in Services |-> InitSelf]
  /\ service_locks = [s \in Services |-> NoCall]
  /\ sessions = [s \in Services |-> <<>>]
  /\ handlers = {}
  /\ hist = [s \in Services |-> InitHist]
  /\ used = 0
  /\ workload \in Workloads
  /\ login = InitLogin
  /\ routes = InitRoutes
  /\ lock_table = InitLockTable
  /\ profile = InitProfile
  /\ progress = InitProgress
  /\ gate = InitGate

\* ------------------------------------------------- ChatService.chat
\* variant: 'API error 429' is retried whatever the attempt number
RetriesEvery429(e, attempt) ==
  e.kind = "ApiError" /\ e.status = 429

\* variant: every exception other than a cancellation is retried while attempts remain
RetriesOnAnyError(e, attempt) ==
  e.kind # "CancelledError" /\ attempt < max_retries

\* str(e) of the exception _wait_for_response raises is "API error <status>: ...".
\* chat() tests the substring "API error 429"; only that message carries it.
RetriesOnError(e, attempt) ==
  e.kind = "ApiError" /\ e.status = 429 /\ attempt < max_retries

HasResult(r) == r.text # "" \/ r.media # Null

\* chat() returns r or raises r: its frame (last_result, kwargs) is gone
Finish(t, r) ==
  [t EXCEPT !.pc = "done", !.result = r, !.pend = NoPend,
            !.last_result = Ret("", Null), !.expect_image = FALSE]

\* chat(): the body of the retry loop after _chat_impl returned or raised t.pend
chat_after(t) ==
  LET p  == t.pend
      t1 == [t EXCEPT !.outcomes = Append(@, p), !.pend = NoPend, !.why = "", !.logins = 0]
  IN IF p.t = "ret"
       THEN LET t2 == [t1 EXCEPT !.last_result = p]
            IN IF HasResult(p) THEN Finish(t2, p)
               ELSE IF t.attempt < max_retries THEN [t2 EXCEPT !.pc = "sleep_empty"]
               ELSE Finish(t2, t2.last_result)
     ELSE IF p.kind = "CancelledError" THEN Finish(t1, p)
     ELSE IF RetriesOnError(p, t.attempt) THEN [t1 EXCEPT !.pc = "sleep_429"]
     ELSE Finish(t1, p)

\* ------------------------------------------- ChatService._chat_impl (tail)
\* A continuation works on st = [t |-> task record, s |-> self record, lk |-> lock holder].

\* finally: after `await self._cleanup()` returned: lock.release(), then the
\* pending return value or exception leaves _chat_impl and reaches chat()
finally_release(st) ==
  [t  |-> chat_after([st.t EXCEPT !.released = @ + 1, !.site = ""]),
   s  |-> st.s,
   lk |-> NoCall]

\* variant: _handle_login relaunches without asking for a login
close_browser_done_without_login(st, site) ==
  IF site = "login"
    THEN [st EXCEPT !.t.pc = "relaunch", !.t.site = "", !.s.context = Null]
    ELSE finally_release(st)

\* close_browser has run to its end at call site `site`
close_browser_done(st, site) ==
  IF site = "login"
    THEN [st EXCEPT !.t.pc = "login_wait", !.t.site = "", !.s.context = Null,
                    !.t.logins = @ + 1]
    ELSE finally_release(st)

\* close_browser(self.playwright, self.context) is called at call site `site`
close_browser(st, site) ==
  IF st.s.context # Null
    THEN [st EXCEPT !.t.site = site,
                    !.t.pc = IF is_debug_dumps_enabled THEN "cb_trace" ELSE "cb_state"]
    ELSE close_browser_done(st, site)

\* the frame of _wait_for_response is gone: its locals no longer exist
WaitLocals(t) ==
  [t EXCEPT !.elapsed = 0, !.last_image_count = 0, !.retry_count = 0, !.response_text = "",
            !.images_at_wake = 0, !.last_response_at = -1]

\* `return r` inside _chat_impl's try statement: the finally clause runs
return_in_try(st, r) ==
  close_browser([st EXCEPT !.t = [WaitLocals(@) EXCEPT !.pend = r]], "cleanup")

\* an exception e reaches the except clauses of _chat_impl's try statement
raise_in_try(st, e) ==
  LET st1 == [st EXCEPT !.t = [WaitLocals(@) EXCEPT !.pend = e]]
  IN IF e.kind # "CancelledError" /\ st.s.context # Null /\ is_debug_dumps_enabled
       THEN [st1 EXCEPT !.t.pc = "exc_diag"]
       ELSE close_browser(st1, "cleanup")

\* an exception e leaves a call to close_browser made at call site st.t.site
raise_in_close(st, e) ==
  IF st.t.site = "login"
    THEN raise_in_try([st EXCEPT !.t.site = ""], e)
    ELSE [st EXCEPT !.t = chat_after([st.t EXCEPT !.pend = e, !.site = ""])]

\* --------------------------------------- ChatService._wait_for_response
\* variant: the first captured payload
select_first_image(images) ==
  IF images = <<>> THEN Null ELSE images[1]

\* _select_best_image: the last captured payload, None for an empty list
select_best_image(images) ==
  IF images = <<>> THEN Null ELSE images[Len(images)]

\* variant: a payload of exactly image_min_size bytes passes
reaches_min_size(s, data) == data >= config[s].image_min_size

\* `len(data) > self.config.image_min_size`
exceeds_min_size(s, data) == data > config[s].image_min_size

\* the exception built from self.api_error after the loop:
\* body.get("error", {}).get("message", ...) needs body to be a JSON object
api_exception(err) ==
  IF err.body = "object" THEN Exc("ApiError", err.status) ELSE Exc("AttributeError", 0)

\* handle_browser_error awaits dump_debug_info only for a page and with dumps enabled
diag_suspends(st) == st.s.context # Null /\ is_debug_dumps_enabled

\* _chat_impl after `text, images = await self._wait_for_response()`;
\* images is the list object self.captured_images
return_from_wait(st) ==
  LET text   == st.t.response_text
      images == st.s.captured_images
  IN IF text = "" /\ images = <<>>
       THEN IF diag_suspends(st) THEN [st EXCEPT !.t.pc = "ret_diag"]
            ELSE return_in_try(st, Ret("", Null))
     ELSE IF text # "" /\ images = <<>> /\ st.t.expect_image /\ diag_suspends(st)
       THEN [st EXCEPT !.t.pc = "ret_diag"]
     ELSE return_in_try(st, Ret(text, select_best_image(images)))

\* the return statements of _chat_impl that follow a diagnostic capture
return_after_diag(st) ==
  IF st.t.response_text = "" THEN return_in_try(st, Ret("", Null))
  ELSE return_in_try(st, Ret(st.t.response_text, select_best_image(st.s.captured_images)))

\* "Try DOM fallback for images (only if expecting images)"
dom_fallback_or_return(st) ==
  IF st.s.expect_image /\ st.s.captured_images = <<>>
    THEN [st EXCEPT !.t.pc = "dom_fallback"]
    ELSE return_from_wait(st)

\* the code after the `while True` loop was left by `break`
after_loop(st) ==
  IF st.t.response_text = ""
    THEN IF st.s.api_error # NoError
           THEN raise_in_try(st, api_exception(st.s.api_error))
           ELSE [st EXCEPT !.t.pc = "extract"]
    ELSE dom_fallback_or_return(st)

\* loop body from "Track new images" to the end of the iteration
loop_inactivity(st) ==
  LET n   == IF Len(st.s.captured_images) > st.t.last_image_count
               THEN Len(st.s.captured_images) ELSE st.t.last_image_count
      base == IF st.s.expect_image THEN INACTIVITY_TIMEOUT_IMAGE ELSE INACTIVITY_TIMEOUT_TEXT
      effective_timeout == base + n * IMAGE_EXTENSION
      st1 == [st EXCEPT !.t.last_image_count = n]
      st2 == [st1 EXCEPT !.t.why = "inactivity"]
  IN IF st.t.elapsed >= effective_timeout
       THEN IF st.s.expect_image /\ Len(st.s.captured_images) > 0
              THEN after_loop([st2 EXCEPT !.t.response_text = "Image generated"])
              ELSE after_loop(st2)
       ELSE [st1 EXCEPT !.t.pc = "poll"]

\* variant: no check of the hard timeout
loop_checks_without_ceiling(s, st) ==
  IF st.s.api_completion.complete
    THEN [st EXCEPT !.t.response_text = st.s.api_completion.text, !.t.pc = "final_sleep"]
  ELSE IF st.s.response_count = 0 /\ st.t.elapsed >= RETRY_AFTER_NO_RESPONSE
          /\ st.t.retry_count < wait_max_retries
    THEN [st EXCEPT !.t.retry_count = @ + 1, !.t.pc = "reclick"]
  ELSE IF st.s.expect_image /\ config[s].image_ready_selector
    THEN [st EXCEPT !.t.pc = "image_ready"]
  ELSE loop_inactivity(st)

\* loop body after the hard-quota check found nothing
\* variant: the prompt is re-sent whether or not a response has been counted
loop_checks_resends_after_response(s, st) ==
  IF st.s.api_completion.complete
    THEN [st EXCEPT !.t.response_text = st.s.api_completion.text, !.t.pc = "final_sleep"]
  ELSE IF st.t.elapsed >= RETRY_AFTER_NO_RESPONSE /\ st.t.retry_count < wait_max_retries
    THEN [st EXCEPT !.t.retry_count = @ + 1, !.t.pc = "reclick"]
  ELSE IF st.t.elapsed >= config[s].response_timeout
    THEN after_loop([st EXCEPT !.t.why = "hard"])
  ELSE IF st.s.expect_image /\ config[s].image_ready_selector
    THEN [st EXCEPT !.t.pc = "image_ready"]
  ELSE loop_inactivity(st)

loop_checks(s, st) ==
  IF st.s.api_completion.complete
    THEN [st EXCEPT !.t.response_text = st.s.api_completion.text, !.t.pc = "final_sleep"]
  ELSE IF st.s.response_count = 0 /\ st.t.elapsed >= RETRY_AFTER_NO_RESPONSE
          /\ st.t.retry_count < wait_max_retries
    THEN [st EXCEPT !.t.retry_count = @ + 1, !.t.pc = "reclick"]
  ELSE IF st.t.elapsed >= config[s].response_timeout
    THEN after_loop([st EXCEPT !.t.why = "hard"])
  ELSE IF st.s.expect_image /\ config[s].image_ready_selector
    THEN [st EXCEPT !.t.pc = "image_ready"]
  ELSE loop_inactivity(st)

\* ------------------------------------------------------------ plumbing
St(c) == [t |-> task[c], s |-> self[ServiceOf(c)], lk |-> service_locks[ServiceOf(c)]]

Apply(c, st) ==
  /\ task' = [task EXCEPT ![c] = st.t]
  /\ self' = [self EXCEPT ![ServiceOf(c)] = st.s]
  /\ service_locks' = [service_locks EXCEPT ![ServiceOf(c)] = st.lk]

\* a primitive raises (times out, fails) only within the event budget
Spend(fault) ==
  /\ fault => (used < EventBudget[workload] /\ workload # "throttled")
  /\ used' = IF fault THEN used + 1 ELSE used

\* a response is delivered to the page listener, within the event budget
SpendResponse ==
  /\ used < EventBudget[workload]
  /\ used' = used + 1

TimeoutError == Exc("TimeoutError", 0)

PageOpen(s, sid) == sid # Null /\ sessions[s][sid].ctx = "open"

\* checked (not program state): is_logged_in has returned True on this session
\* routed (not program state): page.route(pattern, intercept) was called on its page
\* launch (not program state): how the launch that started its driver ended
NewSession(c, ctx, o) ==
  [owner |-> <<c, task[c].attempt>>, driver |-> "started", ctx |-> ctx, closes |-> 0, stops |-> 0,
   limit_text |-> FALSE, ready |-> FALSE, checked |-> FALSE, routed |-> FALSE, launch |-> o]

\* ---------------------------------------------------- chat / _chat_impl
\* chat() is called: first iteration of the retry loop, up to `await lock.acquire()`
Chat(c) ==
  /\ c \in ActiveCalls[workload]
  /\ task[c].pc = "idle"
  /\ c = "b" => task["a"].pc # "idle"  \* a and b are interchangeable: a is called first
  /\ \E e \in BOOLEAN :
       task' = [task EXCEPT ![c] = [@ EXCEPT !.pc = "acquire", !.attempt = 1, !.expect_image = e]]
  /\ UNCHANGED <<self, service_locks, sessions, handlers, hist, used, workload, aside>>

\* lock.acquire() succeeds; turn state is reset; up to `await self._launch_browser()`
Acquire(c) ==
  LET s == ServiceOf(c) IN
  /\ task[c].pc = "acquire"
  /\ service_locks[s] = NoCall
  /\ service_locks' = [service_locks EXCEPT ![s] = c]
  /\ task' = [task EXCEPT ![c] = [@ EXCEPT !.pc = "launch", !.acquired = @ + 1]]
  /\ self' = [self EXCEPT ![s] =
                [@ EXCEPT !.captured_images = <<>>, !.response_count = 0, !.listening = FALSE,
                          !.api_completion = NoCompletion, !.api_error = NoError,
                          !.upload_complete = FALSE, !.expect_image = task[c].expect_image]]
  /\ hist' = [hist EXCEPT ![s] = [@ EXCEPT !.first_status = 0, !.quota_in_wait = FALSE,
                                     !.marker_seen = FALSE, !.final_seen = FALSE]]
  /\ UNCHANGED <<sessions, handlers, used, workload, aside>>

\* _launch_browser -> launch_browser -> create_browser.  Outcomes:
\*   "ok"        browser launched and assigned to self, init scripts and cookies added
\*   "nothing"   async_playwright().start() raised
\*   "driver"    launch_persistent_context raised: the driver is started, no context
\*   "context"   add_init_script/add_cookies/tracing.start inside launch_browser raised:
\*               driver and context are up but never returned to the caller
\*   "assigned"  page.add_init_script in _launch_browser raised (services with init_scripts)
LaunchOutcomes == {"ok", "nothing", "driver", "context", "assigned"}

launch_browser(c, st, o, e) ==
  LET s   == ServiceOf(c)
      id  == Len(sessions[s]) + 1
      st1 == IF o \in {"ok", "assigned"} THEN [st EXCEPT !.s.context = id] ELSE st
  IN /\ sessions' = IF o = "nothing" THEN sessions
                    ELSE [sessions EXCEPT ![s] =
                            Append(@, NewSession(c, IF o = "driver" THEN "none" ELSE "open", o))]
     /\ Apply(c, IF o = "ok"
                   THEN [st1 EXCEPT !.t.pc = IF st.t.pc = "launch" THEN "route" ELSE "regoto"]
                   ELSE raise_in_try(st1, e))

LaunchBrowser(c) ==
  /\ task[c].pc \in {"launch", "relaunch"}
  /\ \E o \in LaunchOutcomes :
       /\ o = "assigned" => config[ServiceOf(c)].init_scripts
       /\ Spend(o # "ok")
       /\ launch_browser(c, St(c), o, TimeoutError)
  /\ UNCHANGED <<handlers, hist, workload, aside>>

\* an await of the try body that only succeeds or raises: page.route,
\* add_cookies + page.goto after login, wait_for_selector(textarea), handle_login_flow
SimpleAwaits ==
  [route |-> "goto", regoto |-> "wait_ui", wait_ui |-> "fill", login_wait |-> "relaunch"]

SimpleAwait(c) ==
  /\ task[c].pc \in DOMAIN SimpleAwaits
  /\ \E ok \in BOOLEAN :
       /\ Spend(~ok)
       /\ Apply(c, IF ok THEN [St(c) EXCEPT !.t.pc = SimpleAwaits[task[c].pc]]
                   ELSE raise_in_try(St(c), TimeoutError))
       /\ sessions' = IF ok /\ task[c].pc = "route"
                        THEN [sessions EXCEPT ![ServiceOf(c)][self[ServiceOf(c)].context].routed = TRUE]
                        ELSE sessions
  /\ UNCHANGED <<handlers, hist, workload, aside>>

\* _navigate_and_login: page.goto, then is_logged_in
NavigateOutcomes == {"logged_in", "not_logged_in", "timeout"}

Navigate(c) ==
  /\ task[c].pc = "goto"
  /\ \E o \in NavigateOutcomes :
       /\ Spend(o = "timeout")
       /\ Apply(c, CASE o = "logged_in"     -> [St(c) EXCEPT !.t.pc = "wait_ui"]
                     [] o = "not_logged_in" -> close_browser(St(c), "login")
                     [] o = "timeout"       -> raise_in_try(St(c), TimeoutError))
       /\ sessions' = IF o = "logged_in"
                        THEN [sessions EXCEPT ![ServiceOf(c)][self[ServiceOf(c)].context].checked = TRUE]
                        ELSE sessions
  /\ UNCHANGED <<handlers, hist, workload, aside>>

\* ------------------------------------------------------ close_browser
\* context.tracing.stop() returned or raised (bare except): go on to storage_state
CloseTrace(c) ==
  /\ task[c].pc = "cb_trace"
  /\ Apply(c, [St(c) EXCEPT !.t.pc = "cb_state"])
  /\ UNCHANGED <<sessions, handlers, hist, used, workload, aside>>

\* context.storage_state() returned or raised an Exception: go on to context.close()
CloseState(c) ==
  /\ task[c].pc = "cb_state"
  /\ Apply(c, [St(c) EXCEPT !.t.pc = "cb_close"])
  /\ UNCHANGED <<sessions, handlers, hist, used, workload, aside>>

\* context.close() returned: go on to playwright.stop()
CloseContext(c) ==
  LET s == ServiceOf(c) IN
  /\ task[c].pc = "cb_close"
  /\ sessions' = [sessions EXCEPT ![s][self[s].context] =
                    [@ EXCEPT !.ctx = "closed", !.closes = @ + 1]]
  /\ Apply(c, [St(c) EXCEPT !.t.pc = "cb_stop"])
  /\ UNCHANGED <<handlers, hist, used, workload, aside>>

\* playwright.stop() returned: close_browser returns to its caller
CloseStop(c) ==
  LET s == ServiceOf(c) IN
  /\ task[c].pc = "cb_stop"
  /\ sessions' = [sessions EXCEPT ![s][self[s].context] =
                    [@ EXCEPT !.driver = "stopped", !.stops = @ + 1]]
  /\ Apply(c, close_browser_done(St(c), task[c].site))
  /\ UNCHANGED <<handlers, hist, used, workload, aside>>

\* ------------------------------------------------------- _send_prompt
\* textarea.fill returned: self.listening = True, up to `await self._click_send()`
Fill(c) ==
  /\ task[c].pc = "fill"
  /\ \E ok \in BOOLEAN :
       /\ Spend(~ok)
       /\ Apply(c, IF ok THEN [St(c) EXCEPT !.t.pc = "click", !.s.listening = TRUE]
                   ELSE raise_in_try(St(c), TimeoutError))
  /\ UNCHANGED <<sessions, handlers, hist, workload, aside>>

\* _click_send returned: from _send_prompt go on to wait_for_selector(response);
\* from the wait loop's re-send reset wait_start and `continue`
ClickSend(c) ==
  /\ task[c].pc \in {"click", "reclick"}
  /\ \E ok \in BOOLEAN :
       /\ Spend(~ok)
       /\ Apply(c, IF ~ok THEN raise_in_try(St(c), TimeoutError)
                   ELSE IF task[c].pc = "click" THEN [St(c) EXCEPT !.t.pc = "wait_resp"]
                   ELSE [St(c) EXCEPT !.t.pc = "poll", !.t.elapsed = 0,
                                      !.t.last_response_at = -1])
  /\ UNCHANGED <<sessions, handlers, hist, workload, aside>>

\* ------------------------------------------------- _wait_for_response
\* wait_for_selector(response) returned: loop locals initialised, first sleep
WaitContainer(c) ==
  /\ task[c].pc = "wait_resp"
  /\ \E ok \in BOOLEAN :
       /\ Spend(~ok)
       /\ Apply(c, IF ok THEN [St(c) EXCEPT !.t.pc = "poll", !.t.elapsed = 0,
                                            !.t.last_image_count = 0, !.t.retry_count = 0,
                                            !.t.response_text = ""]
                   ELSE raise_in_try(St(c), TimeoutError))
  /\ UNCHANGED <<sessions, handlers, hist, workload, aside>>

\* asyncio.sleep(0.5) returned: elapsed is read, the API error check runs,
\* up to the await of the hard-quota locator
PollWake(c) ==
  LET s == ServiceOf(c) IN
  /\ task[c].pc = "poll"
  /\ \E e \in Instants :
       /\ e >= task[c].elapsed
       /\ LET st == [St(c) EXCEPT !.t.elapsed = e,
                                   !.t.images_at_wake = Len(self[s].captured_images)]
          IN Apply(c, IF st.s.api_error # NoError THEN after_loop(st)
                      ELSE [st EXCEPT !.t.pc = "quota"])
  /\ hist' = [hist EXCEPT ![s].quota_in_wait = @ \/ sessions[s][self[s].context].limit_text]
  /\ UNCHANGED <<sessions, handlers, used, workload, aside>>

\* locator("text=You've reached your current limit").count() returned
PollQuota(c) ==
  LET s == ServiceOf(c) IN
  /\ task[c].pc = "quota"
  /\ Apply(c, IF sessions[s][self[s].context].limit_text
                THEN raise_in_try(St(c), Exc("RateLimitException", 0))
                ELSE loop_checks(s, St(c)))
  /\ UNCHANGED <<sessions, handlers, hist, used, workload, aside>>

\* the page starts showing "You've reached your current limit" after the prompt
LimitText(s) ==
  /\ PageOpen(s, self[s].context)
  /\ self[s].listening
  /\ ~sessions[s][self[s].context].limit_text
  /\ Spend(TRUE)
  /\ sessions' = [sessions EXCEPT ![s][self[s].context].limit_text = TRUE]
  /\ UNCHANGED <<task, self, service_locks, handlers, hist, workload, aside>>

\* the page starts showing the element of the service's image_ready_selector
ShowReady(s) ==
  /\ config[s].image_ready_selector
  /\ PageOpen(s, self[s].context)
  /\ self[s].listening
  /\ ~sessions[s][self[s].context].ready
  /\ sessions' = [sessions EXCEPT ![s][self[s].context].ready = TRUE]
  /\ UNCHANGED <<task, self, service_locks, handlers, hist, used, workload, aside>>

\* locator(image_ready_selector).count() returned
ImageReady(c) ==
  /\ task[c].pc = "image_ready"
  /\ Apply(c, IF sessions[ServiceOf(c)][self[ServiceOf(c)].context].ready
                THEN after_loop([St(c) EXCEPT !.t.response_text = "Image generated"])
                ELSE loop_inactivity(St(c)))
  /\ UNCHANGED <<sessions, handlers, hist, used, workload, aside>>

\* the "brief wait for final images" after an API completion signal returned
FinalSleep(c) ==
  /\ task[c].pc = "final_sleep"
  /\ Apply(c, after_loop(St(c)))
  /\ UNCHANGED <<sessions, handlers, hist, used, workload, aside>>

\* variant: captured images do not stand in for a missing DOM text
ExtractRequiresText(c) ==
  /\ task[c].pc = "extract"
  /\ \E text \in {"", "dom text"} :
       LET st == St(c) IN
       Apply(c, IF text = ""
                  THEN raise_in_try(st, Exc("NoResponse", 0))
                ELSE dom_fallback_or_return([st EXCEPT !.t.response_text = text]))
  /\ UNCHANGED <<sessions, handlers, hist, used, workload, aside>>

\* variant: an empty DOM text is accepted as the text of the response
ExtractAcceptsEmptyText(c) ==
  /\ task[c].pc = "extract"
  /\ \E text \in {"", "dom text"} :
       LET st == St(c) IN
       Apply(c, IF text = "" /\ st.s.captured_images # <<>> /\ st.s.expect_image
                  THEN dom_fallback_or_return([st EXCEPT !.t.response_text = "Image generated"])
                ELSE dom_fallback_or_return([st EXCEPT !.t.response_text = text]))
  /\ UNCHANGED <<sessions, handlers, hist, used, workload, aside>>

\* extract_response_text() returned the DOM text (possibly empty)
Extract(c) ==
  /\ task[c].pc = "extract"
  /\ \E text \in {"", "dom text"} :
       LET st == St(c) IN
       Apply(c, IF text = "" /\ st.s.captured_images # <<>> /\ st.s.expect_image
                  THEN dom_fallback_or_return([st EXCEPT !.t.response_text = "Image generated"])
                ELSE IF text = ""
                  THEN raise_in_try(st, Exc("NoResponse", 0))
                ELSE dom_fallback_or_return([st EXCEPT !.t.response_text = text]))
  /\ UNCHANGED <<sessions, handlers, hist, used, workload, aside>>

\* rendered <img> candidates of the response container, in DOM order:
\* ok = src is http, matches the pattern and the fetch succeeded; size = bytes fetched
Img(ok, size) == [ok |-> ok, size |-> size]

DomLists ==
  { <<>>,
    << Img(TRUE, 80000) >>,
    << Img(TRUE, 80001), Img(FALSE, 90000), Img(TRUE, 50001) >>,
    << Img(TRUE, 50001), Img(TRUE, 80001), Img(TRUE, 90000) >> }

\* _extract_images_from_dom over the first n candidates (an exception ends the scan)
RECURSIVE extract_images_from_dom(_, _, _)
extract_images_from_dom(s, cands, n) ==
  IF n = 0 THEN <<>>
  ELSE LET images == extract_images_from_dom(s, cands, n - 1)
       IN IF cands[n].ok /\ exceeds_min_size(s, cands[n].size)
            THEN Append(images, cands[n].size) ELSE images

\* `self.captured_images = await self._extract_images_from_dom()` returned
DomFallback(c) ==
  /\ task[c].pc = "dom_fallback"
  /\ \E cands \in DomLists : \E n \in 0..Len(cands) :
       /\ Spend(n < Len(cands))
       /\ Apply(c, return_from_wait(
                     [St(c) EXCEPT !.s.captured_images =
                                      extract_images_from_dom(ServiceOf(c), cands, n)]))
  /\ UNCHANGED <<sessions, handlers, hist, workload, aside>>

\* ------------------------------------------------ handle_browser_error
\* the diagnostic capture awaited before a return of _chat_impl ended (or raised)
ReturnDiag(c) ==
  /\ task[c].pc = "ret_diag"
  /\ Apply(c, return_after_diag(St(c)))
  /\ UNCHANGED <<sessions, handlers, hist, used, workload, aside>>

\* variant: a capture that raises replaces the error of the turn
ExceptDiagCaptureReplaces(c) ==
  /\ task[c].pc = "exc_diag"
  /\ \E raised \in BOOLEAN :
       Apply(c, close_browser(IF raised THEN [St(c) EXCEPT !.t.pend = Exc("DumpError", 0)]
                                        ELSE St(c), "cleanup"))
  /\ UNCHANGED <<sessions, handlers, hist, used, workload, aside>>

\* the diagnostic capture awaited in `except Exception` ended (or raised): re-raise
ExceptDiag(c) ==
  /\ task[c].pc = "exc_diag"
  /\ Apply(c, close_browser(St(c), "cleanup"))
  /\ UNCHANGED <<sessions, handlers, hist, used, workload, aside>>

\* asyncio.sleep(1) / asyncio.sleep(2) of chat() returned: next attempt
RetrySleep(c) ==
  /\ task[c].pc \in {"sleep_empty", "sleep_429"}
  /\ task' = [task EXCEPT ![c] = [@ EXCEPT !.pc = "acquire", !.attempt = @ + 1]]
  /\ UNCHANGED <<self, service_locks, sessions, handlers, hist, used, workload, aside>>

\* -------------------------------------------------------- cancellation
\* awaits guarded by a bare `except:`, which also catches CancelledError
SwallowingAwaits == {"cb_trace", "cb_stop", "exc_diag", "ret_diag"}
\* awaits of close_browser guarded by `except Exception` only
CloseAwaits == {"cb_state", "cb_close"}
\* awaits of chat() itself, outside _chat_impl's try statement
ChatAwaits == {"acquire", "sleep_empty", "sleep_429"}
LaunchAwaits == {"launch", "relaunch"}

\* the continuation after a bare `except:` swallowed the CancelledError
swallow(st) ==
  LET st1 == [st EXCEPT !.t.swallowed = @ + 1]
  IN CASE st.t.pc = "cb_trace" -> [st1 EXCEPT !.t.pc = "cb_state"]
       [] st.t.pc = "cb_stop"  -> close_browser_done(st1, st.t.site)
       [] st.t.pc = "exc_diag" -> close_browser(st1, "cleanup")
       [] st.t.pc = "ret_diag" -> return_after_diag(st1)

\* task.cancel(): CancelledError is thrown into the await the call is suspended on
Cancel(c) ==
  /\ task[c].pc \notin {"idle", "done"}
  /\ Spend(TRUE)
  /\ LET st == [St(c) EXCEPT !.t.cancels = @ + 1]
     IN IF st.t.pc \in LaunchAwaits
          THEN \E o \in LaunchOutcomes \ {"ok"} :
                 /\ o = "assigned" => config[ServiceOf(c)].init_scripts
                 /\ launch_browser(c, st, o, CancelledError)
          ELSE /\ sessions' = sessions
               /\ Apply(c, CASE st.t.pc \in SwallowingAwaits -> swallow(st)
                             [] st.t.pc \in CloseAwaits -> raise_in_close(st, CancelledError)
                             [] st.t.pc = "acquire" ->
                                  [st EXCEPT !.t = chat_after([st.t EXCEPT !.pend = CancelledError])]
                             [] st.t.pc \in ChatAwaits \ {"acquire"} ->
                                  [st EXCEPT !.t = Finish(st.t, CancelledError)]
                             [] OTHER -> raise_in_try(st, CancelledError))
  /\ UNCHANGED <<handlers, hist, workload, aside>>

\* ------------------------------------------- ChatService._handle_response
\* what a handler reads from a matched API response:
\*   status HTTP status
\*   body   "plain" | "marker" (message_stream_complete) | "final_text" (a record for
\*          which handle_api_response_body returns a completion with text) |
\*          "object" (JSON object error body) | "text" (non-JSON error body)
Resp(status, body) == [status |-> status, body |-> body]

ApiResponses ==
  { Resp(200, "plain"), Resp(200, "marker"), Resp(200, "final_text"),
    Resp(429, "object"), Resp(429, "text"), Resp(500, "object") }

\* page.on("response") fires _handle_response, which runs to its first await.
\*   api: _is_api_response(url); the handler suspends on response.text() before
\*        it looks at self.listening
\*   otherwise the response is an image matching the pattern with status 200:
\*        the handler returns at once unless listening, else suspends on response.body()
Arrive(s) ==
  /\ PageOpen(s, self[s].context)
  /\ SpendResponse
  /\ \E api \in BOOLEAN :
       /\ workload = "throttled" => api
       /\ LET h == [svc |-> s, sid |-> self[s].context, first |-> FALSE,
                    at |-> IF api THEN "text1" ELSE "body", pre |-> ~self[s].listening]
          IN IF api \/ self[s].listening
               THEN /\ Cardinality(handlers) < MaxInFlight
                    /\ handlers' = handlers \cup {h}
               ELSE handlers' = handlers
  /\ UNCHANGED <<task, self, service_locks, sessions, hist, workload, aside>>

\* the turn holding the lock of s is inside the loop of _wait_for_response
InWaitLoop(s) ==
  /\ service_locks[s] # NoCall
  /\ task[service_locks[s]].pc \in {"poll", "quota", "image_ready"}

\* the first response.text() returned or raised: listening gate, response_count,
\* up to the second response.text()
HandlerText(h) ==
  LET s == h.svc IN
  /\ h \in handlers
  /\ h.at = "text1"
  /\ IF self[s].listening
       THEN /\ self' = [self EXCEPT ![s].response_count = @ + 1]
            /\ handlers' = (handlers \ {h}) \cup
                             {[h EXCEPT !.at = "text2", !.first = (self[s].response_count = 0)]}
            /\ hist' = [hist EXCEPT ![s].pre_tracked = @ \/ h.pre]
            /\ task' = IF InWaitLoop(s)
                         THEN [task EXCEPT ![service_locks[s]].last_response_at =
                                              task[service_locks[s]].elapsed]
                         ELSE task
       ELSE /\ handlers' = handlers \ {h}
            /\ UNCHANGED <<self, hist, task>>
  /\ UNCHANGED <<service_locks, sessions, used, workload, aside>>

\* variant: the records of the body are not parsed for a final text
handle_api_body_marker_only(me, r) ==
  IF r.status >= 400
    THEN [me EXCEPT !.api_error = [status |-> r.status, body |-> r.body]]
  ELSE IF r.body = "marker" /\ ~me.expect_image
    THEN [me EXCEPT !.api_completion = [complete |-> TRUE, text |-> ""]]
  ELSE me

\* what _handle_response does with the body of a matched API response
handle_api_body(me, r) ==
  IF r.status >= 400
    THEN [me EXCEPT !.api_error = [status |-> r.status, body |-> r.body]]
  ELSE IF r.body = "final_text"
    THEN [me EXCEPT !.api_completion = [complete |-> TRUE, text |-> "api text"]]
  ELSE IF r.body = "marker" /\ ~me.expect_image
    THEN [me EXCEPT !.api_completion = [complete |-> TRUE, text |-> ""]]
  ELSE me

\* the second response.text() returned or raised: error record / completion signal
HandlerBody(h) ==
  LET s == h.svc IN
  /\ h \in handlers
  /\ h.at = "text2"
  /\ handlers' = handlers \ {h}
  /\ \E r \in ApiResponses :
       /\ workload = "throttled" => r.status = 429
       /\ self' = [self EXCEPT ![s] = IF PageOpen(s, h.sid) THEN handle_api_body(@, r) ELSE @]
       /\ hist' = [hist EXCEPT ![s] =
                     [@ EXCEPT !.pre_tracked  = @ \/ (h.pre /\ self' # self),
                               !.first_status = IF h.first THEN r.status ELSE @,
                               !.marker_seen  = @ \/ (PageOpen(s, h.sid) /\ r = Resp(200, "marker")),
                               !.final_seen   = @ \/ (PageOpen(s, h.sid) /\ r = Resp(200, "final_text"))]]
  /\ UNCHANGED <<task, service_locks, sessions, used, workload, aside>>

\* response.body() of a matching image returned or raised: size filter, append
HandlerImage(h) ==
  LET s == h.svc IN
  /\ h \in handlers
  /\ h.at = "body"
  /\ handlers' = handlers \ {h}
  /\ \E size \in Sizes :
       self' = [self EXCEPT ![s].captured_images =
                  IF PageOpen(s, h.sid) /\ exceeds_min_size(s, size) THEN Append(@, size) ELSE @]
  /\ hist' = [hist EXCEPT ![s].pre_tracked = @ \/ (h.pre /\ self' # self)]
  /\ UNCHANGED <<task, service_locks, sessions, used, workload, aside>>

\* ------------------------------------------------------------ behaviour
Next ==
  \/ \E c \in Calls :
       \/ Chat(c) \/ Acquire(c) \/ LaunchBrowser(c) \/ SimpleAwait(c) \/ Navigate(c)
       \/ CloseTrace(c) \/ CloseState(c) \/ CloseContext(c) \/ CloseStop(c)
       \/ Fill(c) \/ ClickSend(c) \/ WaitContainer(c) \/ PollWake(c) \/ PollQuota(c)
       \/ ImageReady(c) \/ FinalSleep(c) \/ Extract(c) \/ DomFallback(c)
       \/ ReturnDiag(c) \/ ExceptDiag(c) \/ RetrySleep(c) \/ Cancel(c)
  \/ \E s \in Services : Arrive(s) \/ LimitText(s) \/ ShowReady(s)
  \/ \E h \in handlers : HandlerText(h) \/ HandlerBody(h) \/ HandlerImage(h)

Spec == Init /\ [][Next]_vars

\* ===================================================================
\* Properties
\* ===================================================================
OpenSessions(s) == {i \in DOMAIN sessions[s] : sessions[s][i].ctx = "open"}

\* the attempt <<c, k>> of chat() call c is over
AttemptEnded(c, k) ==
  \/ task[c].pc \in {"done", "sleep_empty", "sleep_429"}
  \/ task[c].attempt > k

\* C1: no two browser sessions of one service are open at the same time; a
\* session is open only while a turn holds that service's lock (it is launched
\* under the lock and closed before the lock is released).
C1_OneSessionUnderLock ==
  \A s \in Services :
     /\ Cardinality(OpenSessions(s)) <= 1
     /\ OpenSessions(s) # {} => service_locks[s] # NoCall

\* C2: once an attempt has ended, however it ended, the lock it acquired has
\* been released: acquisitions and releases of the call are equal in number.
C2_LockReleasedOnce ==
  \A c \in Calls :
     task[c].pc \in {"done", "sleep_empty", "sleep_429"} => task[c].released = task[c].acquired

\* C3: every browser session an attempt launched is closed exactly once, no
\* later than the end of that attempt, and never closed again afterwards.
C3_SessionClosedOnce ==
  \A s \in Services : \A i \in DOMAIN sessions[s] :
     LET b == sessions[s][i]
     IN b.ctx # "none" =>
          /\ b.closes <= 1
          /\ AttemptEnded(b.owner[1], b.owner[2]) => (b.closes = 1 /\ b.ctx = "closed")

\* C4: a cancellation delivered to a call ends that call with the cancellation:
\* the call neither returns a value, nor raises another error, nor goes on to
\* the retry delay of another attempt.
C4_CancellationPropagates ==
  \A c \in Calls :
     task[c].cancels > 0 =>
       /\ task[c].pc \notin {"sleep_empty", "sleep_429"}
       /\ task[c].pc = "done" => task[c].result = CancelledError

\* C5: listening is false from the reset of the turn state until the prompt is
\* submitted, and no response observed while listening was false is counted,
\* recorded as completion or error, or captured.
BeforeSubmission ==
  {"launch", "route", "goto", "login_wait", "relaunch", "regoto", "wait_ui", "fill"}

C5_ListeningGate ==
  /\ \A c \in Calls :
       (task[c].pc \in BeforeSubmission \/ task[c].site = "login")
          => ~self[ServiceOf(c)].listening
  /\ \A s \in Services : ~hist[s].pre_tracked

\* C6: every captured payload is strictly larger than the service's image_min_size.
C6_CapturedAboveMinimum ==
  \A s \in Services : \A i \in DOMAIN self[s].captured_images :
     self[s].captured_images[i] > config[s].image_min_size

\* a DOM scan of 50001, 80001, 90000 bytes on grok (minimum 80000) kept the last two
C6_Witness ==
  self["grok"].captured_images = <<80001, 90000>>

\* C7: the media a turn returns is the last element of the captured list at the
\* moment of selection, and null when that list is empty.
C7_ReturnsLastCaptured ==
  [][\A c \in Calls :
       (task[c].pend.t # "ret" /\ task'[c].pend.t = "ret") =>
          LET images == self'[ServiceOf(c)].captured_images
          IN task'[c].pend.media = IF images = <<>> THEN Null ELSE images[Len(images)]]_vars

\* b1, b2, b3 = 50001, 80001, 90000 on svc2 (minimum 50000): b3 is returned
C7_Witness ==
  /\ self["svc2"].captured_images = <<50001, 80001, 90000>>
  /\ task["c"].pend.t = "ret"
  /\ task["c"].pend.media = 90000

IsApi429(o) == o = Exc("ApiError", 429)

C9_First429IsRateLimit ==
  \A c \in Calls :
     LET s == ServiceOf(c)
     IN (/\ service_locks[s] = c
         /\ task[c].pend.t = "exc"
         /\ task[c].pend.kind \notin {"CancelledError", "TimeoutError", "RateLimitException"}
         /\ hist[s].first_status = 429
         /\ self[s].api_error.status = 429)
           => IsApi429(task[c].pend)

\* C10: an attempt during whose response wait the hard-quota text was on the
\* page is not followed by a retry.
C10_QuotaNotRetried ==
  \A c \in Calls :
     task[c].pc = "sleep_429" => ~hist[ServiceOf(c)].quota_in_wait

\* C11: an attempt whose wait ends with no text, no media and no recorded API
\* error does not end in a raised error (it yields the empty result, which the
\* wrapper retries).
C11_EmptyOutcomeNotRaised ==
  \A c \in Calls :
     ~ /\ task[c].pend.kind = "NoResponse"
       /\ self[ServiceOf(c)].captured_images = <<>>
       /\ self[ServiceOf(c)].api_error = NoError

\* C12: chat() makes at most 3 attempts; an error that is not 'API error 429'
\* (in particular the first attempt's) ends the call at once and is the error
\* the call raises; after three rate-limited attempts the call raises the
\* third attempt's error.
C12_BoundedRetries ==
  \A c \in Calls :
     LET o == task[c].outcomes
     IN /\ task[c].attempt <= max_retries
        /\ Len(o) <= max_retries
        /\ \A k \in DOMAIN o :
              (o[k].t = "exc" /\ ~IsApi429(o[k]))
                 => (k = Len(o) /\ task[c].pc = "done" /\ task[c].result = o[k])
        /\ (Len(o) = max_retries /\ \A k \in DOMAIN o : IsApi429(o[k]))
              => (task[c].pc = "done" /\ task[c].result = o[max_retries])

\* three attempts, each ended by 'API error 429'; the call raised the third error
C12_Witness ==
  \E c \in Calls :
     /\ task[c].pc = "done"
     /\ task[c].outcomes = <<Exc("ApiError", 429), Exc("ApiError", 429), Exc("ApiError", 429)>>
     /\ task[c].result = Exc("ApiError", 429)
     /\ task[c].attempt = max_retries

\* the TurnState fields of a service object are as the reset leaves them
FreshTurnState(me) ==
  /\ me.captured_images = <<>> /\ me.response_count = 0 /\ ~me.listening
  /\ me.api_completion = NoCompletion /\ me.api_error = NoError /\ ~me.upload_complete

\* the response a handler works on came from a session of the attempt that
\* holds the service lock now (or no attempt holds it)
FromCurrentAttempt(h) ==
  LET c == service_locks[h.svc]
  IN c # NoCall => sessions[h.svc][h.sid].owner = <<c, task[c].attempt>>

\* C13: every attempt starts, holding the lock, from a fresh TurnState, and a
\* handler step that changes the TurnState of the attempt holding the lock
\* works on a response of one of that attempt's own browser sessions.
C13_AttemptsIndependent ==
  [][/\ \A c \in Calls :
          (task[c].pc = "acquire" /\ task'[c].pc = "launch")
             => (service_locks'[ServiceOf(c)] = c /\ FreshTurnState(self'[ServiceOf(c)]))
     /\ \A h \in handlers \ handlers' :
          self'[h.svc] # self[h.svc] => FromCurrentAttempt(h)]_vars

\* the base inactivity window of the turn running on service s
BaseWindow(s) ==
  IF self[s].expect_image THEN INACTIVITY_TIMEOUT_IMAGE ELSE INACTIVITY_TIMEOUT_TEXT

\* C14: with one payload captured before it, the check of the wait loop at W + 3 seconds
\* (before W + E) does not make the turn fail for lack of a response: if the
\* loop was left at that instant without a completion signal, the turn does
\* not raise 'No response text or images'.
C14_ExtensionPreventsTimeout ==
  [][\A c \in Calls :
       LET s == ServiceOf(c)
       IN (/\ task[c].pc = "extract"
           /\ task[c].elapsed = BaseWindow(s) + 3
           /\ BaseWindow(s) + 3 < BaseWindow(s) + IMAGE_EXTENSION
           /\ task[c].images_at_wake = 1
           /\ self[s].api_completion = NoCompletion)
             => task'[c].pend.kind # "NoResponse"]_vars

\* C15: the inactivity timeout fires only after a full inactivity window
\* without activity: when the wait loop is left by the inactivity timeout, the
\* latest counted API response is at least the base window old.
C15_InactivityFromLastActivity ==
  \A c \in Calls :
     (task[c].why = "inactivity" /\ task[c].last_response_at >= 0)
        => task[c].elapsed - task[c].last_response_at >= BaseWindow(ServiceOf(c))

\* every re-submission is made RETRY_AFTER_NO_RESPONSE seconds or more after the
\* clock was last started: a lower bound of the time from the start of the wait
\* to the latest start of the clock
WaitedBeforeRestart(c) == task[c].retry_count * RETRY_AFTER_NO_RESPONSE

\* C16 as claimed: while the wait loop goes on, less than response_timeout has
\* passed since the wait began, prompt re-submissions included.
C16_CeilingFromWaitStart ==
  \A c \in Calls :
     task[c].pc = "poll" =>
        WaitedBeforeRestart(c) + task[c].elapsed < config[ServiceOf(c)].response_timeout

\* C16 amended: while the wait loop goes on, less than response_timeout has
\* passed since the wait began or since the latest prompt re-submission, and
\* the prompt has been re-submitted at most twice.
C16_CeilingFromLastSubmission ==
  \A c \in Calls :
     /\ task[c].pc = "poll" => task[c].elapsed < config[ServiceOf(c)].response_timeout
     /\ task[c].retry_count <= wait_max_retries

\* after a re-submission the loop goes on although response_timeout has passed
\* since the wait began
C16_Witness ==
  \E c \in Calls :
     /\ task[c].pc = "poll"
     /\ task[c].retry_count >= 1
     /\ task[c].elapsed > 0
     /\ WaitedBeforeRestart(c) + task[c].elapsed >= config[ServiceOf(c)].response_timeout

\* ------------------------------------------------------------------
\* Termination (C17).  The event loop resumes a call whose await can return, and
\* the clock read by the wait loop advances: every iteration sleeps 0.5 s
\* (base.py 290-292).  No fairness is stated for Chat (a call need not be made),
\* for Cancel, for the page's responses or for their handlers.
CallStep(c) ==
  \/ Acquire(c) \/ LaunchBrowser(c) \/ SimpleAwait(c) \/ Navigate(c)
  \/ CloseTrace(c) \/ CloseState(c) \/ CloseContext(c) \/ CloseStop(c)
  \/ Fill(c) \/ ClickSend(c) \/ WaitContainer(c) \/ PollWake(c) \/ PollQuota(c)
  \/ ImageReady(c) \/ FinalSleep(c) \/ Extract(c) \/ DomFallback(c)
  \/ ReturnDiag(c) \/ ExceptDiag(c) \/ RetrySleep(c)

ClockAdvances(c) == PollWake(c) /\ task'[c].elapsed > task[c].elapsed

\* termination is examined with two calls on one service (contention for the
\* lock), with a call on the service that polls an image-ready selector, and with
\* a call whose every attempt is rate-limited (the retry bound)
FairWorkloads == {"pair", "svc2", "throttled"}

FairInit == Init /\ workload \in FairWorkloads

FairSpec ==
  /\ FairInit
  /\ [][Next]_vars
  /\ \A c \in Calls : WF_vars(CallStep(c)) /\ SF_vars(ClockAdvances(c))

\* the lock of s is held by a call that has ended
LockLeaked(s) == service_locks[s] # NoCall /\ task[service_locks[s]].pc = "done"

\* C17: every call of chat() that was made ends, returning or raising.
C17_Terminates ==
  \A c \in Calls : (task[c].pc # "idle") ~> (task[c].pc = "done")

\* every call ends unless it waits for a lock that an ended call never released
C17_TerminatesUnlessLockLeaked ==
  \A c \in Calls : (task[c].pc # "idle") ~> (task[c].pc = "done" \/ LockLeaked(ServiceOf(c)))

\* ------------------------------------------------------------------
\* the poll of call c that is about to run the checks of the loop body will
\* leave the loop by the hard timeout (base.py 298-322)
HardTimeoutBreak(c) ==
  LET s == ServiceOf(c) IN
  /\ task[c].pc = "quota"
  /\ ~sessions[s][self[s].context].limit_text
  /\ ~self[s].api_completion.complete
  /\ ~(self[s].response_count = 0 /\ task[c].elapsed >= RETRY_AFTER_NO_RESPONSE
         /\ task[c].retry_count < wait_max_retries)
  /\ task[c].elapsed >= config[s].response_timeout

\* the turn of call c expected media and has captured a qualifying payload
HoldsExpectedMedia(c) ==
  self[ServiceOf(c)].expect_image /\ self[ServiceOf(c)].captured_images # <<>>

\* _chat_impl returns non-empty text and the last captured payload
DegradedSuccess(c) ==
  LET images == self[ServiceOf(c)].captured_images IN
  /\ task'[c].pend.t = "ret"
  /\ task'[c].pend.text # ""
  /\ task'[c].pend.media = images[Len(images)]

WaitEndsByTimeout(c) ==
  /\ task[c].pc \in {"quota", "image_ready", "extract"}
  /\ task'[c].pc \notin {"poll", "quota", "image_ready", "reclick", "final_sleep",
                         "extract", "dom_fallback"}
  /\ task'[c].why \in {"hard", "inactivity"}

\* C19: when the wait ends by a timeout with a qualifying payload captured and
\* no API error recorded, the turn returns the last captured payload, whether or
\* not it expected media (unless the call is cancelled).
C19_TimeoutReturnsCapturedMedia ==
  [][\A c \in Calls :
       LET images == self[ServiceOf(c)].captured_images IN
       (WaitEndsByTimeout(c) /\ images # <<>> /\ self[ServiceOf(c)].api_error = NoError)
         => \/ task'[c].pend.t = "ret" /\ task'[c].pend.media = images[Len(images)]
            \/ task'[c].pend = CancelledError]_vars

\* ------------------------------------------------------------------
\* the call holding the lock of its service is not cancelled in this step
NotCancelled(c) == task'[c].cancels = task[c].cancels

\* the next poll of call c ends the wait loop by the completion signal: the
\* wake-up goes on to the quota check whatever time has elapsed, and the checks
\* that follow it take the text of the signal and leave the loop
EndsAtNextPoll(c) ==
  LET s == ServiceOf(c) IN
  /\ (task[c].pc = "poll" /\ task'[c].pc # "poll" /\ self[s].api_error = NoError)
       => task'[c].pc = "quota"
  /\ (task[c].pc = "quota" /\ task'[c].pc # "quota")
       => /\ task'[c].pc = "final_sleep"
          /\ self[s].api_completion.complete
          /\ task'[c].response_text = self[s].api_completion.text

\* after the loop was left by a completion signal: a signal with text is what
\* _chat_impl returns, and the DOM text is read only for a signal without text
SignalTextReturned(c) ==
  /\ (task[c].pc = "final_sleep" /\ task'[c].pc # "final_sleep")
       => IF task[c].response_text # ""
            THEN task'[c].pc # "extract" /\ task'[c].response_text \in {"", task[c].response_text}
            ELSE self[ServiceOf(c)].api_error = NoError => task'[c].pc = "extract"
  /\ (task[c].pend = NoPend /\ task'[c].pend.t = "ret" /\ task[c].response_text # "")
       => task'[c].pend.text = task[c].response_text

\* C20 as claimed: once a handler has read a 2xx API response with the terminal
\* marker or a final-text field, the next poll ends the loop whatever time has
\* elapsed (no API error recorded), the text of the signal is returned, and the
\* DOM text is read only when the signal carries none.
C20_SignalEndsWait ==
  [][\A c \in Calls :
       NotCancelled(c)
         => /\ (hist[ServiceOf(c)].marker_seen \/ hist[ServiceOf(c)].final_seen)
                 => EndsAtNextPoll(c)
            /\ SignalTextReturned(c)]_vars

\* C20 amended: the same for a final-text field in any turn and for the terminal
\* marker in a turn that does not expect media, while the page does not show the
\* hard-quota text.
C20_EffectiveSignalEndsWait ==
  [][\A c \in Calls :
       LET s == ServiceOf(c) IN
       NotCancelled(c)
         => /\ ( /\ hist[s].final_seen \/ (hist[s].marker_seen /\ ~self[s].expect_image)
                 /\ task[c].pc = "quota" => ~sessions[s][self[s].context].limit_text )
                 => EndsAtNextPoll(c)
            /\ SignalTextReturned(c)]_vars

\* a turn whose loop was left by a completion signal with text is returning it
C20_Witness ==
  \E c \in Calls :
     /\ hist[ServiceOf(c)].final_seen
     /\ task[c].pend.t = "ret"
     /\ task[c].pend.text = "api text"

\* ------------------------------------------------------------------
\* the page of call c's turn shows the element of the configured image_ready_selector
ReadyShown(c) ==
  LET s == ServiceOf(c) IN
  /\ config[s].image_ready_selector
  /\ self[s].context # Null
  /\ sessions[s][self[s].context].ready

\* C21: a poll of the response wait made while the page shows the configured
\* DOM completion selector does not go back to waiting, in text turns as in
\* media turns and whatever API responses were observed.
C21_DomCompletionEndsWait ==
  [][\A c \in Calls :
       (task[c].pc \in {"quota", "image_ready"} /\ ReadyShown(c) /\ NotCancelled(c))
         => task'[c].pc # "poll"]_vars

\* ------------------------------------------------------------------
\* positions of a call inside _wait_for_response
WaitPositions ==
  {"wait_resp", "poll", "quota", "image_ready", "reclick", "final_sleep", "extract",
   "dom_fallback"}

\* C22: once an error-status API response (here: with a JSON-object body) has
\* been recorded during the response wait, the wait for the response container
\* included, the next wake-up of the wait loop leaves the loop, and the attempt
\* ends with the API error of that status whatever else happens in the interval
\* (the call is not cancelled and the page does not show the hard-quota text).
C22_RecordedErrorFailsTurn ==
  [][\A c \in Calls :
       LET s   == ServiceOf(c)
           err == self[s].api_error
       IN (/\ service_locks[s] = c /\ task[c].pc \in WaitPositions
           /\ err # NoError /\ err.body = "object"
           /\ ~sessions[s][self[s].context].limit_text
           /\ NotCancelled(c))
            => /\ (task[c].pc = "poll" /\ task'[c].pc # "poll")
                    => task'[c].pc \notin WaitPositions
               /\ (task[c].pend = NoPend /\ task'[c].pend # NoPend)
                    => task'[c].pend = Exc("ApiError", err.status)]_vars

\* ------------------------------------------------------------------
\* C23: when the wait of a turn that expected media is over (no API error, no
\* hard-quota text, no cancellation) and nothing was captured from the network,
\* the next thing the turn does after the loop and the text extraction is the
\* DOM fallback: its outcome is not decided before.
C23_DomFallbackBeforeOutcome ==
  [][\A c \in Calls :
       LET s == ServiceOf(c) IN
       (/\ task[c].pc \in {"quota", "image_ready", "final_sleep", "extract"}
        /\ task'[c].pc \notin {"poll", "quota", "image_ready", "reclick", "final_sleep", "extract"}
        /\ self[s].expect_image /\ self[s].captured_images = <<>>
        /\ self[s].api_error = NoError
        /\ ~sessions[s][self[s].context].limit_text
        /\ NotCancelled(c))
         => task'[c].pc = "dom_fallback"]_vars

C24_WitnessMedia ==
  \E c \in Calls :
     /\ task[c].pend.t = "ret" /\ task[c].pend.media # Null
     /\ self[ServiceOf(c)].captured_images # <<>>

\* ------------------------------------------------------------------
\* browser sessions launched by the current attempt of call c whose context is open
OpenSessionsOfAttempt(c) ==
  {i \in OpenSessions(ServiceOf(c)) :
     sessions[ServiceOf(c)][i].owner = <<c, task[c].attempt>>}

LOGIN_TIMEOUT == 300
POLL_INTERVAL == 2
\* save_session calls in one behaviour
MaxSaves == 2

\* load_session: the record of the file, None when the file is missing or
\* cannot be parsed
load_session(file) == IF file > 0 THEN file ELSE Null

\* save_session: open(path, "w") truncates the file ...
SaveSessionOpen ==
  /\ login.saves < MaxSaves
  /\ login.file # Truncated
  /\ login' = [login EXCEPT !.file = Truncated]
  /\ UNCHANGED <<program, routes, lock_table, profile, progress, gate>>

\* ... and json.dump writes the record
SaveSessionDump ==
  /\ login.file = Truncated
  /\ login' = [login EXCEPT !.file = login.saves + 1, !.saves = @ + 1]
  /\ UNCHANGED <<program, routes, lock_table, profile, progress, gate>>

\* delete_session (logout route): the file is removed
DeleteSession ==
  /\ login.file > 0
  /\ login' = [login EXCEPT !.file = Null]
  /\ UNCHANGED <<program, routes, lock_table, profile, progress, gate>>

\* handle_login_flow up to the loop: the login event is sent
RequestLogin ==
  /\ login.pc = "idle"
  /\ login' = [login EXCEPT !.pc = "sleep", !.elapsed = 0, !.at_request = login.saves]
  /\ UNCHANGED <<program, routes, lock_table, profile, progress, gate>>

\* one iteration of the loop: sleep, load_session, return the record if there is
\* one; 'Login timed out' when the loop is left
LoginPoll ==
  /\ login.pc = "sleep"
  /\ LET e == login.elapsed + POLL_INTERVAL
         found == load_session(login.file)
     IN login' = IF found # Null
                   THEN [login EXCEPT !.pc = "returned", !.elapsed = e, !.new_session = found]
                 ELSE IF e < LOGIN_TIMEOUT
                   THEN [login EXCEPT !.elapsed = e]
                 ELSE [login EXCEPT !.pc = "raised", !.elapsed = e]
  /\ UNCHANGED <<program, routes, lock_table, profile, progress, gate>>

LoginInit == Init /\ workload = "grok"

LoginNext ==
  \/ SaveSessionOpen \/ SaveSessionDump \/ DeleteSession
  \/ RequestLogin \/ LoginPoll

LoginSpec == LoginInit /\ [][LoginNext]_vars

\* C26: handle_login_flow returns only a record that was persisted after the
\* login request was issued (a record already in the store when the flow started
\* does not satisfy it), and otherwise raises the timeout error after 300 seconds
\* of polling every 2 seconds.
C26_ReturnsRecordSavedAfterRequest ==
  /\ login.pc = "returned" => login.new_session > login.at_request
  /\ login.pc = "raised" => login.elapsed = LOGIN_TIMEOUT

\* the part that holds: the timeout is raised after exactly 300 seconds of polls
\* that found no record, and a returned record is the one in the file at that poll
C26_ReturnsWhatThePollFinds ==
  [][/\ (login'.pc = "returned" /\ login.pc = "sleep")
          => login'.new_session = load_session(login.file) /\ login.file > 0
     /\ (login'.pc = "raised" /\ login.pc = "sleep")
          => login'.elapsed = LOGIN_TIMEOUT /\ load_session(login.file) = Null]_vars


\* ===================================================================
\* the prompt of call c is submitted (the send button is clicked, first time or
\* on a re-send)
Submits(c) ==
  /\ task[c].pc \in {"click", "reclick"}
  /\ task'[c].pc \in {"wait_resp", "poll"}
  /\ NotCancelled(c)

\* C27: a prompt is submitted only on a session whose login check passed: after
\* the session record is restored at the initial launch and at the relaunch that
\* follows an in-turn login, the login state is verified before the submission.
C27_SubmitsOnlyWhenLoginChecked ==
  [][\A c \in Calls :
       Submits(c) => sessions[ServiceOf(c)][self[ServiceOf(c)].context].checked]_vars

\* the part that holds: an attempt that did not go through the login flow submits
\* only after its login check passed
C27_SubmitsCheckedWithoutLogin ==
  [][\A c \in Calls :
       (Submits(c) /\ task[c].logins = 0)
         => sessions[ServiceOf(c)][self[ServiceOf(c)].context].checked]_vars


\* ===================================================================
\* the last outcome that reached chat() from an attempt of call c
LastOutcome(t) == t.outcomes[Len(t.outcomes)]

\* C28: when a turn fails, the error that propagates is the original error
\* whatever happens in the diagnostic capture: the step that ends the capture
\* (it returned, raised, or was cancelled) keeps the pending error and goes on to
\* the cleanup, and from then on the pending error changes only by reaching
\* chat() unchanged, or by a cancellation thrown into an await of the cleanup.
C28_CaptureKeepsOriginalError ==
  [][\A c \in Calls :
       /\ (task[c].pc = "exc_diag" /\ task'[c] # task[c])
            => /\ task[c].pend.t = "exc"
               /\ task'[c].pend = task[c].pend
               /\ task'[c].pc \in {"cb_trace", "cb_state"}
               /\ task'[c].site = "cleanup"
       /\ (task[c].pend.t = "exc" /\ task'[c].pend # task[c].pend)
            => \/ /\ task'[c].pend = NoPend
                  /\ Len(task'[c].outcomes) = Len(task[c].outcomes) + 1
                  /\ LastOutcome(task'[c]) = task[c].pend
               \/ /\ ~NotCancelled(c)
                  /\ task[c].pc \in CloseAwaits]_vars

\* a failed turn whose diagnostic capture has ended is in its cleanup
C28_Witness ==
  \E c \in Calls :
    /\ task[c].pc = "cb_trace" /\ task[c].site = "cleanup"
    /\ task[c].pend.t = "exc" /\ task[c].pend.kind \notin {"CancelledError"}


\* ===================================================================
\* ChatService._setup_interceptors: the handler intercept(route), on its own

\* variant: a request without a body is not continued
intercept_entry_skips_absent(d) ==
  CASE d = "to_modify" -> "continue_mutated"
    [] d = "absent"    -> "returned"
    [] OTHER           -> "continue_original"

\* intercept(route) up to its first await: `await route.continue_(post_data=...)`
\* when modify_request_body returned True; otherwise (no body, or an exception
\* swallowed by `except Exception`, or nothing to modify) `await route.continue_()`
intercept_entry(d) ==
  IF d = "to_modify" THEN "continue_mutated" ELSE "continue_original"

\* a request matching _get_intercept_pattern() is made: the handler is started
RouteRequest(r) ==
  /\ routes[r].pc = "none"
  /\ \E d \in PostData :
       routes' = [routes EXCEPT ![r] = [@ EXCEPT !.post_data = d, !.pc = intercept_entry(d)]]
  /\ UNCHANGED <<program, login, lock_table, profile, progress, gate>>

\* the request disappears before it is continued (aborted by the page, page closed)
RequestGone(r) ==
  /\ routes[r].pc \in {"continue_mutated", "continue_original"}
  /\ routes[r].alive /\ routes[r].sent = <<>>
  /\ routes' = [routes EXCEPT ![r].alive = FALSE]
  /\ UNCHANGED <<program, login, lock_table, profile, progress, gate>>

\* `await route.continue_(post_data=json.dumps(body))` ends: the request goes on
\* with the mutated body and the handler returns; or the call raises (the request
\* is gone, or the override is rejected), `except Exception: pass` swallows it and
\* the handler goes on to `await route.continue_()`
ContinueMutated(r) ==
  /\ routes[r].pc = "continue_mutated"
  /\ \E ok \in BOOLEAN :
       /\ ok => routes[r].alive
       /\ routes' = [routes EXCEPT ![r] =
                       IF ok THEN [@ EXCEPT !.pc = "returned", !.sent = Append(@, "mutated")]
                             ELSE [@ EXCEPT !.pc = "continue_original"]]
  /\ UNCHANGED <<program, login, lock_table, profile, progress, gate>>

\* `await route.continue_()` ends: the request goes on with its original body;
\* the call raises when the request is gone or the route was handled already
ContinueOriginal(r) ==
  /\ routes[r].pc = "continue_original"
  /\ routes' = [routes EXCEPT ![r] =
                  IF routes[r].alive /\ routes[r].sent = <<>>
                    THEN [@ EXCEPT !.pc = "returned", !.sent = Append(@, "original")]
                    ELSE [@ EXCEPT !.pc = "raised"]]
  /\ UNCHANGED <<program, login, lock_table, profile, progress, gate>>

RouteInit == Init /\ workload = "grok"

RouteNext ==
  \E r \in Requests :
    RouteRequest(r) \/ RequestGone(r) \/ ContinueMutated(r) \/ ContinueOriginal(r)

RouteSpec == RouteInit /\ [][RouteNext]_vars

\* C29: every request matched by the interception rule is resolved exactly once:
\* it is never continued twice, a handler that returned has continued it (with
\* the mutated body or the original one), a handler ends with an error only for
\* a request that no longer exists, and a request whose body is absent, cannot be
\* parsed or need not be modified is continued with its original body.
C29_ResolvedExactlyOnce ==
  \A r \in Requests :
    /\ Len(routes[r].sent) <= 1
    /\ routes[r].pc = "returned" => Len(routes[r].sent) = 1
    /\ routes[r].pc = "raised" => ~routes[r].alive /\ routes[r].sent = <<>>
    /\ (routes[r].post_data # "to_modify" /\ routes[r].pc = "returned")
         => routes[r].sent = <<"original">>

\* one request went on with the mutated body, another one, whose body could not
\* be parsed, with its original body
C29_Witness ==
  /\ routes[1].pc = "returned" /\ routes[1].sent = <<"mutated">>
  /\ routes[2].pc = "returned" /\ routes[2].post_data = "unparsable"
  /\ routes[2].sent = <<"original">>


\* ===================================================================
\* core/browser.py: get_service_lock, on its own

\* variant: a new lock is stored at every call
get_service_lock_always_creates(tab, s) ==
  LET t1 == [tab EXCEPT !.locks[s] = Len(tab.created) + 1, !.created = Append(@, s)]
  IN [table |-> t1, lock |-> t1.locks[s]]

\* get_service_lock(service): `if service not in _service_locks:
\* _service_locks[service] = asyncio.Lock()`, then `return _service_locks[service]`
get_service_lock(tab, s) ==
  LET t1 == IF tab.locks[s] = Null
              THEN [tab EXCEPT !.locks[s] = Len(tab.created) + 1, !.created = Append(@, s)]
              ELSE tab
  IN [table |-> t1, lock |-> t1.locks[s]]

\* caller k calls get_service_lock. The function is synchronous and its callers
\* are coroutines of one event loop, so the call is one step: no other caller
\* runs between its test and its assignment.
GetServiceLock(k) ==
  /\ \E s \in ServiceIds :
       LET r == get_service_lock(lock_table, s)
       IN lock_table' = [r.table EXCEPT !.got[k] = [service |-> s, lock |-> r.lock]]
  /\ UNCHANGED <<program, login, routes, profile, progress, gate>>

LockInit == Init /\ workload = "grok"

LockNext == \E k \in LockCallers : GetServiceLock(k)

LockSpec == LockInit /\ [][LockNext]_vars

\* C30: whatever the order of the calls, get_service_lock returns the same lock
\* to every caller asking for the same service id and different locks for
\* different service ids, and no two locks are ever created for one service id.
C30_OneLockPerService ==
  /\ \A k1, k2 \in LockCallers :
       (lock_table.got[k1].lock # Null /\ lock_table.got[k2].lock # Null)
         => ((lock_table.got[k1].service = lock_table.got[k2].service)
               <=> (lock_table.got[k1].lock = lock_table.got[k2].lock))
  /\ \A i, j \in 1..Len(lock_table.created) :
       lock_table.created[i] = lock_table.created[j] => i = j
  /\ \A k \in LockCallers :
       lock_table.got[k].lock # Null
         => lock_table.got[k].lock = lock_table.locks[lock_table.got[k].service]

\* two callers hold the lock of one service, a third caller the lock of another
C30_Witness ==
  /\ lock_table.got[1].service = "grok" /\ lock_table.got[2].service = "grok"
  /\ lock_table.got[3].service = "svc2"
  /\ lock_table.got[1].lock = lock_table.got[2].lock
  /\ lock_table.got[3].lock \notin {Null, lock_table.got[1].lock}


\* ===================================================================
\* core/browser.py BrowserSession, and the launches made without the service
\* lock, on one profile directory

\* A continuation works on st = [lock |-> holder, me |-> user record, u |-> user].
Su(u) == [lock |-> profile.lock, me |-> profile.user[u], u |-> u]

ApplyUser(u, st) ==
  /\ profile' = [profile EXCEPT !.lock = st.lock, !.user[u] = st.me]
  /\ UNCHANGED <<program, login, routes, lock_table, progress, gate>>

\* BrowserSession.close() after its `if self.playwright:` part:
\* `if self._lock.locked(): self._lock.release()`; then handle_login_flow is
\* awaited (site "login") or __aexit__ returns (site "exit")
session_closed(st, site) ==
  LET st1 == [st EXCEPT !.lock = NoCall]
  IN IF site = "login" THEN [st1 EXCEPT !.me.pc = "login_wait"]
                       ELSE [st1 EXCEPT !.me.pc = "done", !.me.in_with = FALSE]

\* BrowserSession.close() is called
session_close(st, site) ==
  IF st.me.playwright
    THEN [st EXCEPT !.me.pc = IF site = "login" THEN "close_login" ELSE "close_exit"]
    ELSE session_closed(st, site)

\* the body of the with statement ends, normally (e = "") or with exception e:
\* __aexit__ runs dump_error, which lets nothing out, and close()
aexit(st, e) == session_close([st EXCEPT !.me.pend = e], "exit")

\* start() is called
begin_start(st) == [st EXCEPT !.me.pc = "acquire", !.me.start = "", !.me.recoveries = 0]

\* start() returns self
start_returned(st) ==
  LET st1 == [st EXCEPT !.me.start = "returned", !.me.playwright = TRUE, !.me.live = TRUE]
  IN IF st.me.in_with THEN [st1 EXCEPT !.me.pc = "setup_again"]
                      ELSE [st1 EXCEPT !.me.pc = "setup", !.me.in_with = TRUE]

\* start() raises e: called by __aenter__, the exception leaves the with
\* statement; called in the body (after a login), it reaches __aexit__.
\* start records whether the lock was still held by the session at that moment.
start_raised(st, e) ==
  LET st1 == [st EXCEPT !.me.start = IF st.lock = st.u THEN "raised_holding" ELSE "raised"]
  IN IF st.me.in_with THEN aexit(st1, e)
                      ELSE [st1 EXCEPT !.me.pc = "done", !.me.pend = e]

\* `async with BrowserSession(...)`: __aenter__ calls start()
SessionEnter(u) ==
  /\ profile.user[u].pc = "idle"
  /\ ApplyUser(u, begin_start(Su(u)))

\* `await self._lock.acquire()` returns
SessionAcquire(u) ==
  /\ profile.user[u].pc = "acquire"
  /\ profile.lock = NoCall
  /\ ApplyUser(u, [Su(u) EXCEPT !.lock = u, !.me.pc = "launch"])

\* the first `await launch_browser(...)` of start() ends:
\*   "ok"    it returned
\*   "busy"  it raised an error whose message holds "lock", "running" or "timeout":
\*           _clear_profile_lock() runs, then asyncio.sleep(1) is awaited
\*   "error" it raised another Exception: the lock is released, the error re-raised
SessionLaunch(u) ==
  /\ profile.user[u].pc = "launch"
  /\ \E o \in {"ok", "busy", "error"} :
       ApplyUser(u, CASE o = "ok"    -> start_returned(Su(u))
                      [] o = "busy"  -> [Su(u) EXCEPT !.me.pc = "recover_sleep",
                                                      !.me.recoveries = @ + 1]
                      [] o = "error" -> start_raised([Su(u) EXCEPT !.lock = NoCall], "Error"))

\* asyncio.sleep(1) of the recovery returned
SessionRecoverSleep(u) ==
  /\ profile.user[u].pc = "recover_sleep"
  /\ ApplyUser(u, [Su(u) EXCEPT !.me.pc = "relaunch"])

\* the recovery `await launch_browser(...)` ends: return self, or
\* `except Exception: pass`, release, re-raise the first error
SessionRelaunch(u) ==
  /\ profile.user[u].pc = "relaunch"
  /\ \E ok \in BOOLEAN :
       ApplyUser(u, IF ok THEN start_returned(Su(u))
                    ELSE start_raised([Su(u) EXCEPT !.lock = NoCall], "Error"))

\* _setup_imagine_page up to the landing-page test: the editor is there, or the
\* landing page is (browser.close() is called before the login), or it raised
SessionSetup(u) ==
  /\ profile.user[u].pc = "setup"
  /\ \E o \in {"editor", "landing", "error"} :
       ApplyUser(u, CASE o = "editor"  -> [Su(u) EXCEPT !.me.pc = "work"]
                      [] o = "landing" -> session_close(Su(u), "login")
                      [] o = "error"   -> aexit(Su(u), "Error"))

\* `await close_browser(self.playwright, self.context)` of close() returned
SessionClose(u) ==
  /\ profile.user[u].pc \in {"close_login", "close_exit"}
  /\ ApplyUser(u, session_closed([Su(u) EXCEPT !.me.playwright = FALSE, !.me.live = FALSE],
                                 IF profile.user[u].pc = "close_login" THEN "login" ELSE "exit"))

\* handle_login_flow returned (browser.start() is called) or raised its timeout
SessionLoginWait(u) ==
  /\ profile.user[u].pc = "login_wait"
  /\ \E ok \in BOOLEAN :
       ApplyUser(u, IF ok THEN begin_start(Su(u)) ELSE aexit(Su(u), "Error"))

\* _setup_imagine_page after the login: navigation and the re-check
SessionSetupAgain(u) ==
  /\ profile.user[u].pc = "setup_again"
  /\ \E ok \in BOOLEAN :
       ApplyUser(u, IF ok THEN [Su(u) EXCEPT !.me.pc = "work"] ELSE aexit(Su(u), "Error"))

\* the rest of the with body returned or raised
SessionWork(u) ==
  /\ profile.user[u].pc = "work"
  /\ \E ok \in BOOLEAN :
       ApplyUser(u, aexit(Su(u), IF ok THEN "" ELSE "Error"))

\* awaits of start() from which a CancelledError leaves start() as it is:
\* `except Exception` does not catch it, and inside the except clause nothing does
StartAwaits == {"acquire", "launch", "recover_sleep", "relaunch"}
BodyAwaits == {"setup", "setup_again", "work", "login_wait", "close_login"}

\* task.cancel() on the coroutine of u. Thrown into the close_browser of
\* __aexit__, the CancelledError leaves close() before its fields are cleared and
\* before the lock is looked at.
SessionCancel(u) ==
  /\ profile.user[u].cancels = 0
  /\ profile.user[u].pc \in StartAwaits \cup BodyAwaits \cup {"close_exit"}
  /\ LET st == [Su(u) EXCEPT !.me.cancels = @ + 1]
     IN ApplyUser(u, CASE st.me.pc \in StartAwaits -> start_raised(st, "CancelledError")
                       [] st.me.pc \in BodyAwaits  -> aexit(st, "CancelledError")
                       [] OTHER -> [st EXCEPT !.me.pc = "done", !.me.in_with = FALSE,
                                              !.me.pend = "CancelledError"])

\* imagine_t2v / BrowserStream.start: launch_browser is awaited, no lock taken
FreeLaunch(v) ==
  /\ profile.user[v].pc = "idle"
  /\ ApplyUser(v, [Su(v) EXCEPT !.me.pc = "launch"])

\* that launch_browser returned or raised
FreeLaunched(v) ==
  /\ profile.user[v].pc = "launch"
  /\ \E ok \in BOOLEAN :
       ApplyUser(v, IF ok THEN [Su(v) EXCEPT !.me.pc = "work", !.me.live = TRUE]
                    ELSE [Su(v) EXCEPT !.me.pc = "done", !.me.pend = "Error"])

\* the operation on the page ended: `finally: await close_browser(...)` / stop()
FreeFinish(v) ==
  /\ profile.user[v].pc = "work"
  /\ ApplyUser(v, [Su(v) EXCEPT !.me.pc = "close"])

FreeClosed(v) ==
  /\ profile.user[v].pc = "close"
  /\ ApplyUser(v, [Su(v) EXCEPT !.me.pc = "done", !.me.live = FALSE])

ProfileInit == Init /\ workload = "grok"

ProfileNext ==
  \/ \E u \in SessionUsers :
       \/ SessionEnter(u) \/ SessionAcquire(u) \/ SessionLaunch(u) \/ SessionRecoverSleep(u)
       \/ SessionRelaunch(u) \/ SessionSetup(u) \/ SessionClose(u) \/ SessionLoginWait(u)
       \/ SessionSetupAgain(u) \/ SessionWork(u) \/ SessionCancel(u)
  \/ \E v \in FreeLaunchers :
       FreeLaunch(v) \/ FreeLaunched(v) \/ FreeFinish(v) \/ FreeClosed(v)

ProfileSpec == ProfileInit /\ [][ProfileNext]_vars

LiveOn == {u \in ProfileUsers : profile.user[u].live}

\* C31: at any time at most one live browser session exists on the profile
\* directory of a service, counting every code path that launches a browser on
\* it.
C31_OneLiveBrowserPerProfile == Cardinality(LiveOn) <= 1


\* ===================================================================
\* core/browser.py ProgressTracker, on its own

\* pbar.update_absolute calls in one behaviour
MaxForwards == 4

\* the steps passed to update() by ChatService: literals (base.py 121-142, 263,
\* 279, 354, 381), min(40 + response_count * 3, 50), min(50 + int(elapsed / 6), 85)
\* and min(50 + len(captured_images) * 15, 95)
ProgressSteps ==
  {5, 10, 20, 25, 30, 35, 40, 50, 95, 100} \cup {43, 46, 49} \cup (50..85) \cup {65, 80}

\* variant: every step that differs from the stored one is stored
update_stores_any_step(p, step, preview_image) ==
  IF ~p.pbar THEN p
  ELSE LET p1 == IF preview_image THEN [p EXCEPT !.preview_image = TRUE] ELSE p
           step_changed == step # p.current
           p2 == IF step_changed THEN [p1 EXCEPT !.current = step] ELSE p1
       IN IF step_changed \/ preview_image
            THEN [p2 EXCEPT !.last = p2.current, !.forwards = @ + 1]
            ELSE p2

\* ProgressTracker.update(step, preview_image)
update(p, step, preview_image) ==
  IF ~p.pbar THEN p
  ELSE LET p1 == IF preview_image THEN [p EXCEPT !.preview_image = TRUE] ELSE p
           step_changed == step > p.current
           p2 == IF step_changed THEN [p1 EXCEPT !.current = step] ELSE p1
       IN IF step_changed \/ preview_image
            THEN [p2 EXCEPT !.last = p2.current, !.forwards = @ + 1]
            ELSE p2

\* self.progress = ProgressTracker(pbar, preview)
NewTracker ==
  /\ ~progress.made
  /\ \E pbar, preview \in BOOLEAN :
       progress' = [InitProgress EXCEPT !.made = TRUE, !.pbar = pbar, !.preview = preview]
  /\ UNCHANGED <<program, login, routes, lock_table, profile, gate>>

\* self.progress.update(step), from the turn or from a response handler
Update ==
  /\ progress.made /\ progress.forwards < MaxForwards
  /\ \E step \in ProgressSteps : progress' = update(progress, step, FALSE)
  /\ UNCHANGED <<program, login, routes, lock_table, profile, gate>>

\* update_preview_if_enabled: progress.update(progress.current, preview_img)
\* when preview is on and the screenshot gave an image
UpdatePreview ==
  /\ progress.made /\ progress.forwards < MaxForwards
  /\ progress.preview
  /\ progress' = update(progress, progress.current, TRUE)
  /\ UNCHANGED <<program, login, routes, lock_table, profile, gate>>

ProgressInit == Init /\ workload = "grok"

ProgressNext == NewTracker \/ Update \/ UpdatePreview

ProgressSpec == ProgressInit /\ [][ProgressNext]_vars

\* C32: within one attempt the progress never decreases: current changes only
\* to a strictly larger step, and every value forwarded to the progress sink
\* lies in 0..100 and is at least the value forwarded before it.
C32_ProgressNeverDecreases ==
  [][/\ (progress.made /\ progress'.current # progress.current)
          => progress'.current > progress.current
     /\ progress'.forwards # progress.forwards
          => /\ progress'.last \in 0..100
             /\ progress'.last >= progress.last
             /\ progress'.last = progress'.current]_vars

\* a preview refresh was forwarded after a step, and more updates followed
C32_Witness ==
  /\ progress.forwards = MaxForwards
  /\ progress.preview_image
  /\ progress.last \in 50..85


\* ===================================================================
\* C33: whenever a turn needs request mutation, the interception rule is
\* installed on the page that dispatches the prompt, the page of the browser
\* relaunched after an in-turn login included. (Grok always intercepts; the turns
\* of the other service are turns with a model override.)
C33_SubmitsOnRoutedPage ==
  [][\A c \in Calls :
       Submits(c) => sessions[ServiceOf(c)][self[ServiceOf(c)].context].routed]_vars

\* the part that holds: an attempt that did not go through the login flow
\* submits on a page with the interception rule
C33_RoutedWithoutLogin ==
  [][\A c \in Calls :
       (Submits(c) /\ task[c].logins = 0)
         => sessions[ServiceOf(c)][self[ServiceOf(c)].context].routed]_vars


\* ===================================================================
\* providers/grok_video.py and providers/grok/imagine.py: _setup_request_gate,
\* on its own

\* json.loads(request.post_data) or body.get("toolOverrides", {}).get("videoGen")
\* raises for these
RaisingBodies == {"absent", "unparsable", "not_object", "null_overrides"}

\* on_route(route) up to its first await, for a request carrying `body`:
\* the new gate state and the call of the route that is awaited
gate_entry(g, body) ==
  CASE body = "GET" -> [g |-> g, pc |-> "continue"]
    [] body \in RaisingBodies -> [g |-> g, pc |-> "continue"]
    [] ~g.ready -> [g |-> g, pc |-> "abort"]
    [] body = "video" /\ ~g.allow_video -> [g |-> g, pc |-> "abort"]
    [] g.allowed -> [g |-> g, pc |-> "abort"]
    [] OTHER -> [g |-> [g EXCEPT !.allowed = TRUE], pc |-> "continue_mutated"]

\* `await page.route("**/rest/app-chat/conversations/new", on_route)`
GateInstall ==
  /\ ~gate.installed
  /\ \E allow_video \in BOOLEAN :
       gate' = [gate EXCEPT !.installed = TRUE, !.allow_video = allow_video]
  /\ UNCHANGED <<program, login, routes, lock_table, profile, progress>>

\* unblock(): state["ready"] = True
Unblock ==
  /\ gate.installed /\ ~gate.ready
  /\ gate' = [gate EXCEPT !.ready = TRUE]
  /\ UNCHANGED <<program, login, routes, lock_table, profile, progress>>

\* the page makes a request to the gated endpoint: on_route starts
GateRequest(r) ==
  /\ gate.installed
  /\ gate.req[r].pc = "none"
  /\ \E body \in GateBodies :
       LET e == gate_entry(gate, body)
       IN gate' = [e.g EXCEPT !.req[r] = [pc |-> e.pc, body |-> body,
                                          before |-> ~gate.ready, fate |-> ""]]
  /\ UNCHANGED <<program, login, routes, lock_table, profile, progress>>

\* `await route.abort()` returned
GateAbort(r) ==
  /\ gate.req[r].pc = "abort"
  /\ gate' = [gate EXCEPT !.req[r].pc = "returned", !.req[r].fate = "aborted"]
  /\ UNCHANGED <<program, login, routes, lock_table, profile, progress>>

\* `await route.continue_(post_data=json.dumps(body))` returned, or raised and
\* `except Exception` goes on to `await route.continue_()`
GateContinueMutated(r) ==
  /\ gate.req[r].pc = "continue_mutated"
  /\ \E ok \in BOOLEAN :
       gate' = IF ok THEN [gate EXCEPT !.req[r].pc = "returned", !.req[r].fate = "mutated"]
                     ELSE [gate EXCEPT !.req[r].pc = "continue"]
  /\ UNCHANGED <<program, login, routes, lock_table, profile, progress>>

\* `await route.continue_()` returned
GateContinue(r) ==
  /\ gate.req[r].pc = "continue"
  /\ gate' = [gate EXCEPT !.req[r].pc = "returned", !.req[r].fate = "continued"]
  /\ UNCHANGED <<program, login, routes, lock_table, profile, progress>>

GateInit == Init /\ workload = "grok"

GateNext ==
  \/ GateInstall \/ Unblock
  \/ \E r \in GateRequests :
       GateRequest(r) \/ GateAbort(r) \/ GateContinueMutated(r) \/ GateContinue(r)

GateSpec == GateInit /\ [][GateNext]_vars

IsPost(r) == gate.req[r].pc # "none" /\ gate.req[r].body # "GET"
GoesToNetwork(r) ==
  \/ gate.req[r].fate \in {"continued", "mutated"}
  \/ gate.req[r].pc \in {"continue", "continue_mutated"}

\* C34: with the gate installed, every POST to the gated endpoint that arrives
\* before unblock() is aborted: none is continued to the network, whatever its
\* body.
C34_PostBeforeUnblockAborted ==
  \A r \in GateRequests : (IsPost(r) /\ gate.req[r].before) => ~GoesToNetwork(r)

\* the part that holds: a POST whose body is a JSON object with an ordinary
\* toolOverrides entry is aborted when it arrives before unblock()
C34_ObjectPostBeforeUnblockAborted ==
  \A r \in GateRequests :
    (IsPost(r) /\ gate.req[r].before /\ gate.req[r].body \notin RaisingBodies)
      => ~GoesToNetwork(r)


\* ===================================================================
PostsAfterUnblock == {r \in GateRequests : IsPost(r) /\ ~gate.req[r].before}

\* C35: after unblock(), at most one POST to the gated endpoint is continued to
\* the network per gate; every later POST to that endpoint is aborted.
C35_OnePostContinued ==
  Cardinality({r \in PostsAfterUnblock : GoesToNetwork(r)}) <= 1

\* the part that holds: among the POSTs whose body is a JSON object with an
\* ordinary toolOverrides entry, at most one is continued, and it carries the
\* mutated body unless that continue was refused
C35_OneObjectPostContinued ==
  /\ Cardinality({r \in GateRequests :
                    IsPost(r) /\ gate.req[r].body \notin RaisingBodies /\ GoesToNetwork(r)}) <= 1
  /\ \A r \in GateRequests :
       (gate.req[r].body = "video" /\ ~gate.allow_video) => ~GoesToNetwork(r)


\* ===================================================================
\* the wait loop of call c decides to send the prompt again
Resends(c) == task'[c].pc = "reclick" /\ task[c].pc # "reclick"

\* C36: within one attempt the prompt is dispatched at most 3 times (the first
\* send and at most 2 re-sends). A re-send is decided only in the wait loop,
\* after its tests of the API error and of the completion signal, while no
\* matched API response has been counted and at least 10 s after the latest
\* send; each decision is followed by one dispatch.
C36_BoundedResends ==
  [][\A c \in Calls :
       /\ Resends(c)
            => /\ task[c].pc = "quota"
               /\ self[ServiceOf(c)].response_count = 0
               /\ ~self[ServiceOf(c)].api_completion.complete
               /\ task[c].elapsed >= RETRY_AFTER_NO_RESPONSE
               /\ task'[c].retry_count = task[c].retry_count + 1
       /\ task'[c].retry_count <= wait_max_retries
       /\ (task[c].pc = "reclick" /\ task'[c] # task[c]) => task'[c].pc # "reclick"
       /\ (task[c].pc = "click" /\ task'[c].pc = "wait_resp") => task[c].retry_count = 0]_vars

\* the second re-send has been dispatched
C36_Witness ==
  \E c \in Calls :
    /\ task[c].pc = "poll" /\ task[c].retry_count = wait_max_retries
    /\ task[c].elapsed = 0


\* ===================================================================
\* the wait of call c ends by raising for the recorded API error (base.py 356-362)
RaisesForApiError(c) ==
  /\ task[c].pc \in WaitPositions
  /\ NotCancelled(c)
  /\ task[c].pend = NoPend
  /\ task'[c].pend.t = "exc"
  /\ task'[c].pend.kind \in {"ApiError", "AttributeError"}
  /\ self[ServiceOf(c)].api_error # NoError

\* C37: for every error-status API response recorded during the wait, whatever
\* the shape of its body, the attempt fails with an error of the form
\* 'API error <status>: ...', so that a 429 is recognised by the retry of chat().
C37_ApiErrorMessageForm ==
  [][\A c \in Calls :
       RaisesForApiError(c)
         => task'[c].pend = Exc("ApiError", self[ServiceOf(c)].api_error.status)]_vars

\* the part that holds: a recorded error whose body is a JSON object fails the
\* attempt with 'API error <status>: ...'
C37_ObjectBodyMessageForm ==
  [][\A c \in Calls :
       (RaisesForApiError(c) /\ self[ServiceOf(c)].api_error.body = "object")
         => task'[c].pend = Exc("ApiError", self[ServiceOf(c)].api_error.status)]_vars


\* ===================================================================
\* a step of user u releases the service lock
ReleasesLock(u) ==
  /\ profile'.user[u] # profile.user[u]
  /\ profile.lock # NoCall
  /\ profile'.lock = NoCall

\* C38: BrowserSession.close() releases the service lock only when this session
\* holds it: a second close() on a session never releases a lock that another
\* session has acquired in the meantime.
C38_ReleasesOnlyOwnLock ==
  [][\A u \in SessionUsers : ReleasesLock(u) => profile.lock = u]_vars

\* the part that holds: the first close() of a session, made while its browser
\* is open, releases the session's own lock
C38_FirstCloseReleasesOwnLock ==
  [][\A u \in SessionUsers :
       (ReleasesLock(u) /\ profile.user[u].pc = "close_login") => profile.lock = u]_vars


\* ===================================================================
\* a step in which the call of start() made by u returns
StartReturns(u) ==
  /\ profile.user[u].start # "returned"
  /\ profile'.user[u].start = "returned"

\* a step in which the call of start() made by u raises
StartRaises(u) ==
  /\ profile.user[u].start = ""
  /\ profile'.user[u].start \in {"raised", "raised_holding"}

\* C39: whenever BrowserSession.start() ends by raising, the service lock it
\* acquired has been released; it returns only with the lock held and a live
\* browser; the recovery relaunch is attempted at most once.
C39_StartEndsWithLockSettled ==
  [][\A u \in SessionUsers :
       /\ StartRaises(u) => profile'.user[u].start = "raised"
       /\ StartReturns(u) => (profile'.lock = u /\ profile'.user[u].live)
       /\ profile'.user[u].recoveries <= 1]_vars

\* the part that holds: start() ending with an Exception of the launch (first
\* launch or failed recovery relaunch) has released the lock, and the recovery
\* is attempted at most once
C39_LaunchErrorReleasesLock ==
  [][\A u \in SessionUsers :
       /\ (StartRaises(u) /\ profile'.user[u].pend = "Error")
            => (profile'.user[u].start = "raised" /\ profile'.lock # u)
       /\ profile'.user[u].recoveries <= 1]_vars

\* start() returns with the lock held and the browser live, as long as no
\* other session has released the lock under it
C39_ReturnsHoldingLock ==
  [][\A u \in SessionUsers :
       (StartReturns(u) /\ profile.lock = u) => (profile'.lock = u /\ profile'.user[u].live)]_vars


\* ===================================================================
\* browser sessions of service s whose launch raised after the Playwright
\* driver was started, inside create_browser or launch_browser
FailedLaunches(s) ==
  {i \in DOMAIN sessions[s] : sessions[s][i].launch \in {"driver", "context"}}

\* C40: if launching the browser fails after the Playwright driver was started,
\* the driver and any context already opened are shut down: once the attempt
\* has ended, its driver is stopped and its context is not open.
C40_FailedLaunchShutDown ==
  \A s \in Services : \A i \in FailedLaunches(s) :
     LET b == sessions[s][i]
     IN AttemptEnded(b.owner[1], b.owner[2]) => (b.driver = "stopped" /\ b.ctx # "open")

\* what the code does instead: a driver started by a failed launch is never
\* stopped, and a context opened by it is never closed
C40_FailedLaunchNeverShutDown ==
  \A s \in Services : \A i \in FailedLaunches(s) :
     LET b == sessions[s][i]
     IN b.driver = "started" /\ b.stops = 0 /\ b.closes = 0 /\ b.ctx # "closed"

====
